---------------------------- MODULE Spec2Model ----------------------------
(***************************************************************************)
(* Peg solitaire solver (feschber/peg-solitaire), solitaire-solver crate.  *)
(*                                                                         *)
(* A Board is a u64 seen as an 8x8 bit grid, cell (y,x) at bit y*8+x.  A   *)
(* word is modelled by the set of its set bit indices, a subset of 0..63:  *)
(* bit operations are set operations, a left shift drops what passes bit   *)
(* 63, and the unsigned order is decided by the highest differing bit.     *)
(*                                                                         *)
(* SpecBoard explores the board functions on bounded boards; Spec runs     *)
(* calculate_all_solutions layer by layer for every thread count and every *)
(* interleaving of its worker threads.  The other specifications run one   *)
(* part of the program each: SpecPack the packing, SpecLegal the tests for *)
(* a legal move, SpecGame moves and undo in the game, SpecOps rows of      *)
(* board operations, SpecMasks the bulk move masks, SpecChance the chance  *)
(* of random play, SpecFirst the depth-first search, SpecCache the cache   *)
(* codec, SpecDedup par_dedup and SpecParallel parallel.                   *)
(***************************************************************************)
EXTENDS Integers, Sequences, FiniteSets, TLC

(***************************************************************************)
(* Bounds of the exploration.                                              *)
(***************************************************************************)
\* boards drawn as inputs hold at most MaxPegs pegs (or are the inverse of one)
MaxPegs == 2

\* words with bits outside the 33-cell mask hold at most MaxStray bits
MaxStray == 1

\* the solver is run with 1..MaxThreads threads
MaxThreads == 3

\* the reverse phase is followed until the layer of MaxLayer pegs is pushed
MaxLayer == 8

\* boards queried for a legal move hold at most MaxSparse pegs, or holes
MaxSparse == 1

\* a game is played for at most MaxMoves moves
MaxMoves == 4

\* at most MaxOps board operations are applied in a row
MaxOps == 3

\* a step of the depth-first search is at most MaxRounds rounds of its loops
MaxRounds == 200

\* the vectors handed to par_dedup on its own consist of at most MaxRuns runs
\* of equal values
MaxRuns == 3

\* write_solutions is handed at most MaxCache boards
MaxCache == 2

\* a Solution that is iterated has held at most MaxHeld moves at a time
MaxHeld == 3

\* a ResetComponent is followed through moves made during its first MaxTicks
\* ticks
MaxTicks == 2

\* a game with a reset button holds at most MaxResetMoves moves at a time
MaxResetMoves == 2

\* the feasible boards handed to calculate_p_random_chance_success hold at
\* most MaxChancePegs pegs
MaxChancePegs == 5

\* a round of the reverse loop past MaxLayer is followed when its layer holds
\* at most MaxWidth boards
MaxWidth == 150

\* the run that is followed to its return is taken up at most MaxResume
\* rounds before the end of the reverse loop
MaxResume == 3

(***************************************************************************)
(* State.                                                                  *)
(*   board, prev, op, arg  the board functions under test: the value last  *)
(*                         produced, the value it was produced from, the   *)
(*                         function applied and its argument               *)
(*   threads               the thread count of calculate_all_solutions     *)
(*   visited               the layers; visited[k + 1] is the code's        *)
(*                         visited[k], the boards of k pegs                *)
(*   i                     the counter of the reverse loop                 *)
(*   pc                    where the main thread stands in the loop body   *)
(*   stage                 the caller of the running par_map_chunks /      *)
(*                         par_join: reverse_moves_par or par_dedup        *)
(*   chunks, results       the chunks handed to the threads of             *)
(*                         par_map_chunks and what each returned           *)
(*   finished              the threads of the running scope that have      *)
(*                         returned                                        *)
(*   buffer                the vector par_join fills                       *)
(*   constellations        the vector of the loop body                     *)
(*   ret                   the Option<Move> last returned: << >> or << m >> *)
(*   solution              the moves of a Solution, steps[0..count)        *)
(*   history               the boards before each move of solution         *)
(*   reset_component       the elapsed ticks of each ResetComponent spawned *)
(*   feasible, chances     calculate_p_random_chance_success: its argument *)
(*                         and its map from boards to probabilities, each  *)
(*                         a fraction << numerator, denominator >>         *)
(*   pegs                  its loop counter, the peg count of the layer    *)
(*   frames                calculate_first_solution: the calls of solve in *)
(*                         progress, outermost first                       *)
(*   first_visited, tried  its set of failed boards and its call counter   *)
(*   solutions, stream     the cache: the vector written and the bytes of  *)
(*                         the stream                                      *)
(*   loaded                the set load_solutions returns                  *)
(*   remaining             the counter of the forward loop of              *)
(*                         calculate_all_solutions                         *)
(*   returned              the vector calculate_all_solutions returns      *)
(*   sol                   a Solution with its fields: steps, the array of *)
(*                         total moves (indices from 0), and count         *)
(*   iter                  the SolutionIter made of it: << >> before       *)
(*                         into_iter, then its fields sol and idx          *)
(*   yielded               the moves the iterator has returned so far      *)
(***************************************************************************)
VARIABLES board, prev, op, arg,
          threads, visited, i, pc, stage, chunks, results, finished, buffer, constellations,
          ret, solution, history, reset_component,
          feasible, chances, pegs,
          frames, first_visited, tried,
          solutions, stream, loaded,
          remaining, returned,
          sol, iter, yielded

(***************************************************************************)
(* u64 words as sets of bit indices.                                       *)
(***************************************************************************)
BitIdx == 0..63

Max(S) == CHOOSE m \in S : \A n \in S : n <= m

Min(S) == CHOOSE m \in S : \A n \in S : m <= n

RECURSIVE Pow2(_)
Pow2(n) == IF n = 0 THEN 1 ELSE 2 * Pow2(n - 1)

\* the word of a literal below 2^31
Bits(v) == {k \in 0..30 : (v \div Pow2(k)) % 2 = 1}

And(a, b) == a \cap b

Or(a, b) == a \cup b

Xor(a, b) == (a \ b) \cup (b \ a)

Not(a) == BitIdx \ a

Shl(a, n) == {k + n : k \in {j \in a : j + n <= 63}}

Shr(a, n) == {k - n : k \in {j \in a : j >= n}}

\* u64::swap_bytes: byte k goes to byte 7-k
swap_bytes(a) == {8 * (7 - (k \div 8)) + (k % 8) : k \in a}

\* u64::reverse_bits: bit i goes to bit 63-i
reverse_bits(a) == {63 - k : k \in a}

\* the derived Ord of Board(u64): unsigned comparison of the words
Less(a, b) == a # b /\ Max(Xor(a, b)) \in b

LessEq(a, b) == a = b \/ Less(a, b)

(***************************************************************************)
(* board.rs: constants, constructors, cell access.                         *)
(***************************************************************************)
SLOTS == 33

SIZE == 7

REPR == 8

empty == {}

full ==
    Or(Shl(Bits(7), 2),
    Or(Shl(Bits(7), REPR + 2),
    Or(Shl(Bits(127), 2 * REPR),
    Or(Shl(Bits(127), 3 * REPR),
    Or(Shl(Bits(127), 4 * REPR),
    Or(Shl(Bits(7), 5 * REPR + 2),
       Shl(Bits(7), 6 * REPR + 2)))))))

Cell(pos) == pos[1] * REPR + pos[2]

occupied(b, pos) == Cell(pos) \in b

set(b, pos) == b \cup {Cell(pos)}

unset(b, pos) == b \ {Cell(pos)}

inbounds(pos) ==
    /\ pos[1] >= 0
    /\ pos[1] < SIZE
    /\ pos[2] >= 0
    /\ pos[2] < SIZE
    /\ And(set(empty, pos), full) # {}

solved == set(empty, <<3, 3>>)

default == unset(full, <<SIZE \div 2, SIZE \div 2>>)

count_balls(b) == Cardinality(b)

\* inverse without the board mask
inverse_unmasked(b) == Not(b)

\* inverse within the 7x7 square, corners included
inverse_in_square(b) == And(Not(b), {y * REPR + x : y \in 0..(SIZE - 1), x \in 0..(SIZE - 1)})

inverse(b) == And(Not(b), full)

(***************************************************************************)
(* board.rs: the eight symmetries and the canonical form.                  *)
(***************************************************************************)
\* reverse_rows without the one-bit shift that realigns the 7 columns
reverse_rows_unaligned(b) == reverse_bits(swap_bytes(b))

reverse_rows(b) == Shr(reverse_bits(swap_bytes(b)), 1)

reverse_cols(b) == Shr(swap_bytes(b), 8)

\* rotate_180 realigning the rows only, not the columns
rotate_180_rows_only(b) == Shr(reverse_bits(b), 8)

rotate_180(b) == Shr(reverse_bits(b), 9)

\* 0x00AA00AA00AA00AA
TMask1 == Or(Bits(170), Or(Shl(Bits(170), 16), Or(Shl(Bits(170), 32), Shl(Bits(170), 48))))

\* 0x0000CCCC0000CCCC
TMask2 == Or(Bits(52428), Shl(Bits(52428), 32))

\* 0x00000000F0F0F0F0
TMask3 == Or(Bits(61680), Shl(Bits(61680), 16))

\* one pass of the in-register transpose: t = (x ^ (x >> s)) & m; x ^ t ^ (t << s)
DeltaSwap(x, s, m) ==
    LET t == And(Xor(x, Shr(x, s)), m)
    IN  Xor(Xor(x, t), Shl(t, s))

transpose(b) == DeltaSwap(DeltaSwap(DeltaSwap(b, 7, TMask1), 14, TMask2), 28, TMask3)

symmetries(b) ==
    LET transposed == transpose(b)
    IN  << b,
           reverse_rows(transposed),
           rotate_180(b),
           reverse_cols(transposed),
           reverse_cols(b),
           reverse_rows(b),
           rotate_180(transposed),
           transposed >>

\* the loop of normalize: keep the smaller of the running minimum and the next image
RECURSIVE MinFrom(_, _, _)
MinFrom(syms, k, min) ==
    IF k > Len(syms) THEN min
    ELSE MinFrom(syms, k + 1, IF Less(syms[k], min) THEN syms[k] ELSE min)

\* normalize whose loop stops one image early
normalize_short(b) ==
    LET syms == symmetries(b)
    IN  MinFrom(SubSeq(syms, 1, 7), 2, syms[1])

normalize(b) ==
    LET syms == symmetries(b)
    IN  MinFrom(syms, 2, syms[1])

(***************************************************************************)
(* board.rs: move pattern masks.                                           *)
(***************************************************************************)
\* Dir::enumerate
enumerate == << "North", "East", "South", "West" >>

MOVABLE_EAST ==
    {Cell(pos) : pos \in
        {<<0, 2>>, <<1, 2>>,
         <<2, 0>>, <<2, 1>>, <<2, 2>>, <<2, 3>>, <<2, 4>>,
         <<3, 0>>, <<3, 1>>, <<3, 2>>, <<3, 3>>, <<3, 4>>,
         <<4, 0>>, <<4, 1>>, <<4, 2>>, <<4, 3>>, <<4, 4>>,
         <<5, 2>>, <<6, 2>>}}

MOVABLE_WEST == rotate_180(MOVABLE_EAST)

MOVABLE_SOUTH == transpose(MOVABLE_EAST)

MOVABLE_NORTH == transpose(MOVABLE_WEST)

movable_positions(dir) ==
    CASE dir = "North" -> MOVABLE_NORTH
      [] dir = "East" -> MOVABLE_EAST
      [] dir = "South" -> MOVABLE_SOUTH
      [] dir = "West" -> MOVABLE_WEST

dir_shift(b, dir, count) ==
    CASE dir = "East" -> Shr(b, count)
      [] dir = "West" -> Shl(b, count)
      [] dir = "South" -> Shr(b, count * REPR)
      [] dir = "North" -> Shl(b, count * REPR)

\* mov_pattern_mask without the cells a jump can start from
mov_pattern_mask_anywhere(b, dir) ==
    And(And(b, dir_shift(b, dir, 1)), Not(dir_shift(b, dir, 2)))

mov_pattern_mask(b, dir) ==
    And(And(And(movable_positions(dir), b), dir_shift(b, dir, 1)), Not(dir_shift(b, dir, 2)))

\* rev_mov_pattern_mask that does not look at the far cell
rev_mov_pattern_mask_near(b, dir) ==
    And(And(movable_positions(dir), b), Not(dir_shift(b, dir, 1)))

rev_mov_pattern_mask(b, dir) ==
    And(And(And(movable_positions(dir), b), Not(dir_shift(b, dir, 1))), Not(dir_shift(b, dir, 2)))

\* 0b111: three cells in a row
Row3 == Bits(7)

\* 0x010101: three cells in a column
Col3 == Bits(65793)

\* direction_mask whose West mask starts at idx like the East one
direction_mask_west_forward(idx, dir) ==
    CASE dir = "East" -> Shl(Row3, idx)
      [] dir = "West" -> Shl(Row3, idx)
      [] dir = "South" -> Shl(Col3, idx)
      [] dir = "North" -> Shl(Col3, idx - 2 * REPR)

direction_mask(idx, dir) ==
    CASE dir = "East" -> Shl(Row3, idx)
      [] dir = "West" -> Shl(Row3, idx - 2)
      [] dir = "South" -> Shl(Col3, idx)
      [] dir = "North" -> Shl(Col3, idx - 2 * REPR)

toggle_mov_idx_unchecked(b, idx, dir) == Xor(b, direction_mask(idx, dir))

\* u64::trailing_zeros of a non-zero word
trailing_zeros(a) == Min(a)

\* a.0 - 1 of a non-zero word: the lowest set bit borrows into the bits below it
Dec(a) == (a \ {Min(a)}) \cup {k \in BitIdx : k < Min(a)}

(***************************************************************************)
(* dir.rs, mov.rs, board.rs: single moves.                                 *)
(***************************************************************************)
\* Dir::mov: the skipped cell and the target cell of a jump from pos
dir_mov(dir, pos) ==
    CASE dir = "North" -> << << pos[1] - 1, pos[2] >>, << pos[1] - 2, pos[2] >> >>
      [] dir = "South" -> << << pos[1] + 1, pos[2] >>, << pos[1] + 2, pos[2] >> >>
      [] dir = "West" -> << << pos[1], pos[2] - 1 >>, << pos[1], pos[2] - 2 >> >>
      [] dir = "East" -> << << pos[1], pos[2] + 1 >>, << pos[1], pos[2] + 2 >> >>

\* struct Move
Move(pos, skip, target) == [pos |-> pos, skip |-> skip, target |-> target]

\* Move::dir: the direction from pos to skip
move_dir(m) ==
    CASE m.pos[1] < m.skip[1] -> "South"
      [] m.pos[1] > m.skip[1] -> "North"
      [] m.pos[2] < m.skip[2] -> "East"
      [] m.pos[2] > m.skip[2] -> "West"

\* the debug assertions of Board::mov
mov_asserts(b, m) ==
    /\ inbounds(m.pos)
    /\ inbounds(m.skip)
    /\ inbounds(m.target)
    /\ occupied(b, m.pos)
    /\ occupied(b, m.skip)
    /\ ~occupied(b, m.target)

\* Board::mov
mov(b, m) == set(unset(unset(b, m.pos), m.skip), m.target)

\* the debug assertions of Board::reverse_mov
reverse_mov_asserts(b, m) ==
    /\ inbounds(m.pos)
    /\ inbounds(m.skip)
    /\ inbounds(m.target)
    /\ ~occupied(b, m.pos)
    /\ ~occupied(b, m.skip)
    /\ occupied(b, m.target)

\* reverse_mov that leaves the jumped cell empty
reverse_mov_no_skip(b, m) == unset(set(b, m.pos), m.target)

\* Board::reverse_mov
reverse_mov(b, m) == unset(set(set(b, m.pos), m.skip), m.target)

\* Board::get_legal_move: Some(move) as << move >>, None as << >>
get_legal_move(b, pos, dir) ==
    LET skip == dir_mov(dir, pos)[1]
        target == dir_mov(dir, pos)[2]
    IN  IF inbounds(target) /\ occupied(b, skip) /\ ~occupied(b, target)
        THEN << Move(pos, skip, target) >>
        ELSE << >>

\* Board::get_legal_inverse_move
get_legal_inverse_move(b, target, dir) ==
    LET skip == dir_mov(dir, target)[1]
        pos == dir_mov(dir, target)[2]
    IN  IF inbounds(pos) /\ ~occupied(b, skip) /\ ~occupied(b, pos)
        THEN << Move(pos, skip, target) >>
        ELSE << >>

\* i64::abs
abs(n) == IF n < 0 THEN -n ELSE n

\* Board::is_legal_move: the occupancy of pos is read and dropped
is_legal_move(b, pos, dst) ==
    LET dist_y == abs(pos[1] - dst[1])
        dist_x == abs(pos[2] - dst[2])
    IN  IF (dist_y = 2 /\ dist_x = 0) \/ (dist_x = 2 /\ dist_y = 0)
        THEN get_legal_move(b, pos,
                 CASE dst[1] < pos[1] -> "North"
                   [] dst[1] > pos[1] -> "South"
                   [] dst[2] < pos[2] -> "West"
                   [] dst[2] > pos[2] -> "East")
        ELSE << >>

\* the entries of a vector, as a set
Range(f) == {f[k] : k \in DOMAIN f}

\* the pegs of a word from the lowest bit up: the order of the while loops
\* that clear trailing_zeros
BitSeq(a) == SelectSeq([k \in 1..64 |-> k - 1], LAMBDA c : c \in a)

RECURSIVE Flatten(_, _)
\* the concatenation of the sequences ss[1..n]
Flatten(ss, n) == IF n = 0 THEN << >> ELSE Flatten(ss, n - 1) \o ss[n]

\* the moves found at one cell, in the order of Dir::enumerate
MovesAt(b, idx, inv) ==
    LET pos == << idx \div REPR, idx % REPR >>
        found == [d \in 1..4 |->
                     IF inv THEN get_legal_inverse_move(b, pos, enumerate[d])
                            ELSE get_legal_move(b, pos, enumerate[d])]
    IN  Flatten(found, 4)

\* Board::get_legal_moves
get_legal_moves(b) ==
    CHOOSE moves \in {Flatten([k \in 1..Len(cells) |-> MovesAt(b, cells[k], FALSE)], Len(cells)) :
                          cells \in {BitSeq(b)}} : TRUE

\* Board::get_legal_inverse_moves
get_legal_inverse_moves(b) ==
    CHOOSE moves \in {Flatten([k \in 1..Len(cells) |-> MovesAt(b, cells[k], TRUE)], Len(cells)) :
                          cells \in {BitSeq(b)}} : TRUE

(***************************************************************************)
(* lib.rs: move generation over a slice of boards.                         *)
(***************************************************************************)
\* the slice normalize whose loop stops before the last board
normalize_all_but_last(boards) ==
    [k \in 1..Len(boards) |-> IF k < Len(boards) THEN normalize(boards[k]) ELSE boards[k]]

\* the slice normalize: every board replaced by its canonical form
normalize_all(boards) ==
    [k \in 1..Len(boards) |-> normalize(boards[k])]

\* the while loop of possible_moves / reverse_moves: one push per set bit of mask
RECURSIVE PushMoves(_, _, _)
PushMoves(mask, b, dir) ==
    IF mask = empty THEN << >>
    ELSE LET idx == trailing_zeros(mask)
         IN  << toggle_mov_idx_unchecked(b, idx, dir) >>
                 \o PushMoves(And(mask, Dec(mask)), b, dir)

\* the mask the loop of reverse_moves (reverse) or possible_moves walks
pattern_mask(b, dir, reverse) ==
    IF reverse THEN rev_mov_pattern_mask(b, dir) ELSE mov_pattern_mask(b, dir)

\* the inner for loop over states[lo..hi] for one direction
RECURSIVE ForBoards(_, _, _, _, _)
ForBoards(states, lo, hi, dir, reverse) ==
    IF lo > hi THEN << >>
    ELSE IF lo = hi THEN PushMoves(pattern_mask(states[lo], dir, reverse), states[lo], dir)
    ELSE LET mid == (lo + hi) \div 2
         IN  ForBoards(states, lo, mid, dir, reverse)
                 \o ForBoards(states, mid + 1, hi, dir, reverse)

\* the outer for loop over Dir::enumerate()
ForDirs(states, reverse) ==
    ForBoards(states, 1, Len(states), enumerate[1], reverse)
        \o ForBoards(states, 1, Len(states), enumerate[2], reverse)
        \o ForBoards(states, 1, Len(states), enumerate[3], reverse)
        \o ForBoards(states, 1, Len(states), enumerate[4], reverse)

reverse_moves(states) == normalize_all(ForDirs(states, TRUE))

possible_moves(states) == normalize_all(ForDirs(states, FALSE))

(***************************************************************************)
(* board.rs, sort.rs: the radix key and the sort.                          *)
(***************************************************************************)
\* MASK of to_compressed_repr is the board mask; its bits from the lowest up:
\* KeyCell[k + 1] is the cell _pext_u64 moves to bit k of the key
KeyCell == SelectSeq([k \in 1..64 |-> k - 1], LAMBDA c : c \in full)

\* the cells packed from the highest bit of the key down
to_compressed_repr_from_top(b) == {k \in 0..(SLOTS - 1) : KeyCell[SLOTS - k] \in b}

\* _pext_u64(b, MASK)
to_compressed_repr(b) == {k \in 0..(SLOTS - 1) : KeyCell[k + 1] \in b}

\* 0x7f, the seven cells of a middle row
Row7 == Bits(127)

\* to_compressed_repr of the targets other than x86_64: each row masked and
\* shifted down to its place
to_compressed_repr_shifts(b) ==
    Shr(And(b, Shl(Row3, 2)), 2)
        \cup Shr(And(b, Shl(Row3, 10)), 10 - 3)
        \cup Shr(And(b, Shl(Row7, 16)), 16 - 6)
        \cup Shr(And(b, Shl(Row7, 24)), 24 - (6 + 7))
        \cup Shr(And(b, Shl(Row7, 32)), 32 - (6 + 14))
        \cup Shr(And(b, Shl(Row3, 42)), 42 - (6 + 21))
        \cup Shr(And(b, Shl(Row3, 50)), 50 - (6 + 21 + 3))

\* from_compressed_repr whose second row is shifted to column 0
from_compressed_repr_row1(compressed) ==
    Shl(And(compressed, Row3), 2)
        \cup Shl(And(compressed, Shl(Row3, 3)), 8 - 3)
        \cup Shl(And(compressed, Shl(Row7, 6)), 16 - 6)
        \cup Shl(And(compressed, Shl(Row7, 6 + 7)), 24 - (6 + 7))
        \cup Shl(And(compressed, Shl(Row7, 6 + 14)), 32 - (6 + 14))
        \cup Shl(And(compressed, Shl(Row3, 6 + 21)), 42 - (6 + 21))
        \cup Shl(And(compressed, Shl(Row3, 6 + 21 + 3)), 50 - (6 + 21 + 3))

\* Board::from_compressed_repr: each row masked and shifted up to its place
from_compressed_repr(compressed) ==
    Shl(And(compressed, Row3), 2)
        \cup Shl(And(compressed, Shl(Row3, 3)), 8 + 2 - 3)
        \cup Shl(And(compressed, Shl(Row7, 6)), 16 - 6)
        \cup Shl(And(compressed, Shl(Row7, 6 + 7)), 24 - (6 + 7))
        \cup Shl(And(compressed, Shl(Row7, 6 + 14)), 32 - (6 + 14))
        \cup Shl(And(compressed, Shl(Row3, 6 + 21)), 42 - (6 + 21))
        \cup Shl(And(compressed, Shl(Row3, 6 + 21 + 3)), 50 - (6 + 21 + 3))

\* bit k of the sort digit: of the radix key, or of the word itself
HasBit(b, k, bykey) == IF bykey THEN KeyCell[k + 1] \in b ELSE k \in b

\* ascending by the bits bit, bit-1, .., 0 of the digit
RECURSIVE RadixSort(_, _, _)
RadixSort(arr, bit, bykey) ==
    IF Len(arr) <= 1 \/ bit < 0 THEN arr
    ELSE LET zeros == SelectSeq(arr, LAMBDA b : ~HasBit(b, bit, bykey))
             ones == SelectSeq(arr, LAMBDA b : HasBit(b, bit, bykey))
         IN  RadixSort(zeros, bit - 1, bykey) \o RadixSort(ones, bit - 1, bykey)

\* sort_unstable_by(partial_cmp): ascending in the order of Board
sort_unstable_by(arr) == RadixSort(arr, 63, FALSE)

\* the radix sorts of the U33 dispatcher: ascending in the key
radixsort(arr) == RadixSort(arr, SLOTS - 1, TRUE)

voracious_sort(arr) == IF Len(arr) <= 300 THEN sort_unstable_by(arr) ELSE radixsort(arr)

voracious_mt_sort(arr, thread_n) == IF Len(arr) <= 256 THEN sort_unstable_by(arr) ELSE radixsort(arr)

fast_sort_unstable_mt(arr, n) ==
    IF n = 1 THEN voracious_sort(arr) ELSE voracious_mt_sort(arr, n)

(***************************************************************************)
(* lib.rs: chunking, joining, dedup.                                       *)
(***************************************************************************)
\* Vec::dedup: an element is dropped when it equals the one before it
dedup(v) ==
    LET kept == SelectSeq([k \in 1..Len(v) |-> k], LAMBDA k : k = 1 \/ v[k] # v[k - 1])
    IN  [j \in 1..Len(kept) |-> v[kept[j]]]

div_ceil(a, b) == (a + b - 1) \div b

\* the test of par_map_chunks / par_map_chunks_mut for running f on the whole slice
Whole(t, nthreads) == nthreads = 1 \/ Len(t) < 100 * nthreads

\* slice::chunks(size)
chunks_of(t, size) ==
    [c \in 1..div_ceil(Len(t), size) |->
        SubSeq(t, (c - 1) * size + 1, IF c * size < Len(t) THEN c * size ELSE Len(t))]

\* the chunks par_map_chunks hands to its threads
Chunks(t, nthreads) ==
    IF Whole(t, nthreads) THEN << t >> ELSE chunks_of(t, div_ceil(Len(t), nthreads))

\* par_dedup whose chunks are joined as deduplicated, boundaries unchecked
keep_boundaries(cs) == cs

\* the for loop of par_dedup popping at every boundary
pop_every_boundary(cs) ==
    [c \in 1..Len(cs) |-> IF c < Len(cs) THEN SubSeq(cs[c], 1, Len(cs[c]) - 1) ELSE cs[c]]

\* the for loop of par_dedup: chunk i loses its last element when chunk i+1 starts with it
pop_boundaries(cs) ==
    [c \in 1..Len(cs) |->
        IF c < Len(cs) /\ cs[c][Len(cs[c])] = cs[c + 1][1]
        THEN SubSeq(cs[c], 1, Len(cs[c]) - 1)
        ELSE cs[c]]

\* a slot of spare capacity not yet written
Uninit == {-1}

RECURSIVE SumLens(_, _)
\* the total length of slices 1..c
SumLens(slices, c) == IF c = 0 THEN 0 ELSE SumLens(slices, c - 1) + Len(slices[c])

\* Vec::with_capacity(total) seen through spare_capacity_mut
spare_capacity(slices) == [k \in 1..SumLens(slices, Len(slices)) |-> Uninit]

\* copy_from_slice with the destinations handed out from the back
copy_from_slice_back(buf, slices, c) ==
    LET start == Len(buf) - SumLens(slices, c)
    IN  [k \in 1..Len(buf) |->
            IF k > start /\ k <= start + Len(slices[c]) THEN slices[c][k - start] ELSE buf[k]]

\* dst.copy_from_slice(src) for the c-th slice of into_mut_slices
copy_from_slice(buf, slices, c) ==
    LET start == SumLens(slices, c - 1)
    IN  [k \in 1..Len(buf) |->
            IF k > start /\ k <= start + Len(slices[c]) THEN slices[c][k - start] ELSE buf[k]]

(***************************************************************************)
(* lib.rs: the collection of the result, and the round with one thread.    *)
(***************************************************************************)
\* s.into_iter().flat_map(|b| [b, b.inverse().normalize()]) for one layer: the
\* boards of the layer, each followed by its normalised inverse
flat_map(layer) ==
    [j \in 1..(2 * Len(layer)) |->
        IF j % 2 = 1 THEN layer[(j + 1) \div 2] ELSE normalize(inverse(layer[j \div 2]))]

RECURSIVE Collect(_, _)
\* the layers v[1..n] flattened in order
Collect(v, n) == IF n = 0 THEN << >> ELSE Collect(v, n - 1) \o flat_map(v[n])

\* the collection that takes every layer
solvable_every_layer(v) == Collect(v, Len(v))

\* visited.into_iter().take((SLOTS - 1) / 2 + 1).flat_map(..).collect()
solvable(v) ==
    Collect(v, IF Len(v) < (SLOTS - 1) \div 2 + 1 THEN Len(v) ELSE (SLOTS - 1) \div 2 + 1)

\* one round of the reverse loop with threads = 1: par_map_chunks spawns no
\* thread, the sort is voracious_sort and par_dedup is Vec::dedup
single_thread_round(layer) == dedup(voracious_sort(reverse_moves(layer)))

(***************************************************************************)
(* lib.rs: the pagoda function.                                            *)
(***************************************************************************)
\* const PAGODA: the weight of each bit of a board
PAGODA == [idx \in BitIdx |-> IF idx \in {11, 25, 27, 29, 43} THEN 1 ELSE 0]

RECURSIVE pagoda_from(_, _)
\* result after the first k rounds of the while loop of pagoda
pagoda_from(cells, k) == IF k = 0 THEN 0 ELSE pagoda_from(cells, k - 1) + PAGODA[cells[k]]

\* fn pagoda: the loop takes the set bits from the lowest up
pagoda(b) ==
    CHOOSE result \in {pagoda_from(cells, Len(cells)) : cells \in {BitSeq(b)}} : TRUE

(***************************************************************************)
(* lib.rs: intersect_sorted_vecs, the merge of the forward loop.           *)
(***************************************************************************)
\* one round of the while loop whose Equal arm leaves ia where it is
intersect_round_stay(a, b, st) ==
    IF st.ia <= Len(a) /\ st.ib <= Len(b)
    THEN IF a[st.ia] = b[st.ib]
         THEN [ia |-> st.ia, ib |-> st.ib + 1, res |-> Append(st.res, a[st.ia])]
         ELSE IF Less(a[st.ia], b[st.ib])
              THEN [st EXCEPT !.ia = st.ia + 1]
              ELSE [st EXCEPT !.ib = st.ib + 1]
    ELSE st

\* one round of the while loop of intersect_sorted_vecs (the indices count
\* from 1); the state is left alone once the loop has ended
intersect_round(a, b, st) ==
    IF st.ia <= Len(a) /\ st.ib <= Len(b)
    THEN IF a[st.ia] = b[st.ib]
         THEN [ia |-> st.ia + 1, ib |-> st.ib + 1, res |-> Append(st.res, a[st.ia])]
         ELSE IF Less(a[st.ia], b[st.ib])
              THEN [st EXCEPT !.ia = st.ia + 1]
              ELSE [st EXCEPT !.ib = st.ib + 1]
    ELSE st

RECURSIVE intersect_rounds(_, _, _, _)
\* n rounds of the loop
intersect_rounds(a, b, st, n) ==
    IF n = 0 THEN st
    ELSE IF n = 1 THEN intersect_round(a, b, st)
    ELSE CHOOSE r \in {intersect_rounds(a, b, half, n - n \div 2) :
                           half \in {intersect_rounds(a, b, st, n \div 2)}} : TRUE

\* intersect_sorted_vecs that returns its first argument: nothing is pruned
intersect_keeps_all(a, b) == a

\* intersect_sorted_vecs: the loop ends within a.len() + b.len() rounds
intersect_sorted_vecs(a, b) ==
    intersect_rounds(a, b, [ia |-> 1, ib |-> 1, res |-> << >>], Len(a) + Len(b)).res

(***************************************************************************)
(* calc_success.rs: the chance of success of random play.  The f64 values  *)
(* are kept as exact fractions << numerator, denominator >> in lowest      *)
(* terms; rounding is not modelled.                                        *)
(***************************************************************************)
RECURSIVE Gcd(_, _)
Gcd(a, b) == IF b = 0 THEN a ELSE Gcd(b, a % b)

\* the fraction n/d in lowest terms, d > 0
Frac(n, d) == IF n = 0 THEN << 0, 1 >> ELSE << n \div Gcd(n, d), d \div Gcd(n, d) >>

FracAdd(p, q) == Frac(p[1] * q[2] + q[1] * p[2], p[2] * q[2])

FracMul(p, q) == Frac(p[1] * q[1], p[2] * q[2])

\* 1.0 / len as f64: 1/len, and never read when there is no legal move
p_move_of(len) == IF len = 0 THEN << 0, 1 >> ELSE Frac(1, len)

RECURSIVE p_success_from(_, _, _, _, _)
\* p_success after the first k rounds of the for loop over legal_moves: each
\* move adds p_move * chances[c_new] when c_new is feasible and p_move * 0.0
\* when it is not
p_success_from(constellation, legal_moves, k, feasible_set, known) ==
    IF k = 0 THEN << 0, 1 >>
    ELSE LET c_new == normalize(mov(constellation, legal_moves[k]))
             p_move == p_move_of(Len(legal_moves))
             term == IF c_new \in feasible_set THEN FracMul(p_move, known[c_new])
                     ELSE FracMul(p_move, << 0, 1 >>)
         IN  FracAdd(p_success_from(constellation, legal_moves, k - 1, feasible_set, known), term)

\* p_success counting the feasible moves only
p_success_feasible_only(constellation, feasible_set, known) ==
    LET legal_moves == get_legal_moves(constellation)
        good == SelectSeq(legal_moves,
                          LAMBDA m : normalize(mov(constellation, m)) \in feasible_set)
    IN  p_success_from(constellation, good, Len(good), feasible_set, known)

\* the body of the loop over feasible_with_i_pegs: the chance inserted for
\* one constellation
p_success(constellation, feasible_set, known) ==
    LET legal_moves == get_legal_moves(constellation)
    IN  p_success_from(constellation, legal_moves, Len(legal_moves), feasible_set, known)

\* chances.get(&c_new).expect("already present") panics for one of the legal
\* moves of the constellation: c_new is feasible and has no entry
expect_panics(constellation, feasible_set, known) ==
    \E m \in Range(get_legal_moves(constellation)) :
        \E c_new \in {normalize(mov(constellation, m))} :
            c_new \in feasible_set /\ c_new \notin DOMAIN known

\* the filter that lets through the boards of one peg more
feasible_with_i_pegs_off_by_one(feasible_set, n) == {b \in feasible_set : count_balls(b) = n + 1}

\* feasible.iter().filter(|b| b.count_balls() == i)
feasible_with_i_pegs(feasible_set, n) == {b \in feasible_set : count_balls(b) = n}

(***************************************************************************)
(* solution.rs, calc_first.rs: the depth-first search for one solution.    *)
(* A Solution is kept as the vector of its first count steps.              *)
(***************************************************************************)
\* Solution::total: the length of the steps array
total == 31

\* Solution::push: steps[count] = mov, count += 1
push(s, m) == Append(s, m)

\* Solution::pop with the count left as it is
pop_keeps_count(s) == s

\* Solution::pop: count -= 1
pop(s) == SubSeq(s, 1, Len(s) - 1)

is_solved(b) == b = solved

POSITION_VEC == {Cell(<< 1, 3 >>), Cell(<< 3, 1 >>), Cell(<< 3, 3 >>), Cell(<< 3, 5 >>), Cell(<< 5, 3 >>)}

\* is_solvable that looks at the centre only
is_solvable_centre(b) == occupied(b, << 3, 3 >>)

is_solvable(b) == And(b, POSITION_VEC) # {}

RECURSIVE sort_unstable_by_key(_)
\* legal_moves.sort_unstable_by_key(|(b, _)| u64::MAX - b.0): the greatest
\* board first.  Two legal moves of a board never lead to the same board, so
\* the order is the same for every unstable sort.
sort_unstable_by_key(pairs) ==
    IF pairs = {} THEN << >>
    ELSE CHOOSE sorted \in
             {<< first >> \o sort_unstable_by_key(rest) :
                  << first, rest >> \in
                      {<< p, pairs \ {p} >> : p \in {q \in pairs : \A o \in pairs : LessEq(o[1], q[1])}}} :
             TRUE

\* lines 20-27 of solve: the boards the legal moves lead to, with the moves.
\* No move is listed twice by get_legal_moves, so the pairs are a set.
sorted_legal_moves(b) ==
    CHOOSE deduped \in
        {dedup(sorted) :
             sorted \in {sort_unstable_by_key(pairs) :
                            pairs \in {{<< mov(b, m), m >> : m \in Range(get_legal_moves(b))}}}} :
        TRUE

\* lines 10-19 of solve: what a call does before its loop
solve_entry(b, seen) ==
    IF is_solved(b) THEN "true"
    ELSE IF ~is_solvable(b) THEN "false"
    ELSE IF b \in seen THEN "false"
    ELSE "loop"

\* the frame of a call of solve that has reached its loop
Frame(b) == [board |-> b, legal_moves |-> sorted_legal_moves(b), k |-> 1]

(***************************************************************************)
(* solution.rs: the Solution with its array, and its iterator.             *)
(***************************************************************************)
\* Solution::default(): steps of Move::default(), count 0
DefaultSolution ==
    [steps |-> [k \in 0..(total - 1) |-> Move(<< 0, 0 >>, << 0, 0 >>, << 0, 0 >>)], count |-> 0]

\* IntoIterator::into_iter
into_iter(s) == [sol |-> s, idx |-> 0]

\* SolutionIter::next that stops at count
next_to_count(it) ==
    IF it.idx < it.sol.count
    THEN [item |-> << it.sol.steps[it.idx] >>, iter |-> [it EXCEPT !.idx = it.idx + 1]]
    ELSE [item |-> << >>, iter |-> it]

\* SolutionIter::next: the Option returned, Some(res) as << res >> and None
\* as << >>, and the iterator after the call
next(it) ==
    IF it.idx < total
    THEN [item |-> << it.sol.steps[it.idx] >>, iter |-> [it EXCEPT !.idx = it.idx + 1]]
    ELSE [item |-> << >>, iter |-> it]

(***************************************************************************)
(* solution-cache: build.rs writes the packed boards as a byte stream and  *)
(* lib.rs reads them back.  A byte is a number below 256.  The brotli      *)
(* compressor and decompressor are taken to hand over the written bytes    *)
(* unchanged.                                                              *)
(***************************************************************************)
RECURSIVE Value(_)
\* the number a word of bits below 31 stands for
Value(a) == IF a = {} THEN 0 ELSE Pow2(Max(a)) + Value(a \ {Max(a)})

\* b as u32
as_u32(w) == {j \in w : j < 32}

\* u32::to_le_bytes: the lowest byte first
to_le_bytes(w) == [k \in 1..4 |-> Value({j - 8 * (k - 1) : j \in {c \in w : c \div 8 = k - 1}})]

\* the bits of a byte
ByteBits(v) == {j \in 0..7 : (v \div Pow2(j)) % 2 = 1}

\* u32::from_be_bytes: the highest byte first
from_be_bytes(buf) == UNION {Shl(ByteBits(buf[k]), 8 * (4 - k)) : k \in 1..4}

\* u32::from_le_bytes
from_le_bytes(buf) == UNION {Shl(ByteBits(buf[k]), 8 * (k - 1)) : k \in 1..4}

\* *b > u32::MAX as u64
gt_u32(w) == \E j \in w : j >= 32

\* write_solutions: the bytes handed to the compressor, for the packed boards
written_bytes(packed) ==
    LET sol_gt_u32 == SelectSeq(packed, gt_u32)
        sol_lt_u32 == SelectSeq(packed, LAMBDA w : ~gt_u32(w))
        count_gt_u32 == Bits(Len(sol_gt_u32))
    IN  to_le_bytes(count_gt_u32)
            \o Flatten([k \in 1..Len(sol_gt_u32) |-> to_le_bytes(as_u32(sol_gt_u32[k]))],
                       Len(sol_gt_u32))
            \o Flatten([k \in 1..Len(sol_lt_u32) |-> to_le_bytes(as_u32(sol_lt_u32[k]))],
                       Len(sol_lt_u32))

\* decompressor.read_exact(&mut buf) succeeds
read_exact_ok(bytes) == Len(bytes) >= 4

(***************************************************************************)
(* Tuples of the state.                                                     *)
(***************************************************************************)
boardVars == << board, prev, op, arg >>

solverVars ==
    << threads, visited, i, pc, stage, chunks, results, finished, buffer, constellations >>

moveVars == << ret, solution, history, reset_component >>

chanceVars == << feasible, chances, pegs >>

firstVars == << frames, first_visited, tried >>

cacheVars == << solutions, stream, loaded >>

phaseVars == << remaining, returned >>

iterVars == << sol, iter, yielded >>

\* the state outside the board functions and the solver
restVars == << moveVars, chanceVars, firstVars, cacheVars, phaseVars, iterVars >>

vars == << boardVars, solverVars, restVars >>

(***************************************************************************)
(* Input boards.                                                           *)
(***************************************************************************)
RECURSIVE UpTo(_, _)
\* the words with at most n bits, all taken from cells
UpTo(cells, n) ==
    IF n = 0 THEN {{}}
    ELSE LET less == UpTo(cells, n - 1)
         IN  less \cup {s \cup {c} : s \in less, c \in cells}

RECURSIVE Vectors(_, _)
\* the vectors of at most n entries of a set
Vectors(of, n) ==
    IF n = 0 THEN {<< >>}
    ELSE LET shorter == Vectors(of, n - 1)
         IN  shorter \cup {Append(v, x) : v \in shorter, x \in of}

SmallBoards == UpTo(full, MaxPegs)

\* boards with few pegs, boards with few holes, and words with stray bits
InputBoards == SmallBoards \cup {inverse(s) : s \in SmallBoards} \cup UpTo(BitIdx, MaxStray)

InMask(b) == And(b, Not(full)) = {}

\* the solver before calculate_all_solutions is called
SolverIdle ==
    /\ threads = 1
    /\ visited = << >>
    /\ i = 0
    /\ pc = "idle"
    /\ stage = "none"
    /\ chunks = << >>
    /\ results = << >>
    /\ finished = {}
    /\ buffer = << >>
    /\ constellations = << >>

\* no board function under test
BoardIdle ==
    /\ board = empty
    /\ prev = empty
    /\ op = "idle"
    /\ arg = 0

\* no move returned or recorded
MoveIdle ==
    /\ ret = << >>
    /\ solution = << >>
    /\ history = << >>
    /\ reset_component = << >>

\* calculate_p_random_chance_success not called
ChanceIdle ==
    /\ feasible = << >>
    /\ chances = << >>
    /\ pegs = 0

\* calculate_first_solution not called
FirstIdle ==
    /\ frames = << >>
    /\ first_visited = {}
    /\ tried = 0

\* nothing written to the cache
CacheIdle ==
    /\ solutions = << >>
    /\ stream = << >>
    /\ loaded = {}

\* calculate_all_solutions before its forward loop and its return
PhaseIdle ==
    /\ remaining = 0
    /\ returned = << >>

\* no Solution under test
IterIdle ==
    /\ sol = << >>
    /\ iter = << >>
    /\ yielded = << >>

RestIdle == MoveIdle /\ ChanceIdle /\ FirstIdle /\ CacheIdle /\ PhaseIdle /\ IterIdle

(***************************************************************************)
(* SpecBoard: the board functions applied to bounded boards.               *)
(***************************************************************************)
InitBoard ==
    /\ board \in InputBoards
    /\ prev = board
    /\ op = "input"
    /\ arg = 0
    /\ SolverIdle
    /\ RestIdle

\* Board::symmetries, entry g, of an input (the images of an input are inputs)
Symmetry ==
    \E g \in 1..8 :
        /\ op = "input"
        /\ board' = symmetries(board)[g]
        /\ prev' = board
        /\ op' = "symmetry"
        /\ arg' = g
        /\ UNCHANGED << solverVars, restVars >>

\* Board::normalize of an input
Normalize ==
    /\ op = "input"
    /\ board' = normalize(board)
    /\ prev' = board
    /\ op' = "normalize"
    /\ arg' = 0
    /\ UNCHANGED << solverVars, restVars >>

NextBoard == Symmetry \/ Normalize

SpecBoard == InitBoard /\ [][NextBoard]_vars

(***************************************************************************)
(* Spec: calculate_all_solutions, its reverse loop, for every thread count *)
(* and every order in which the threads of a scope return.                 *)
(***************************************************************************)
Init ==
    /\ BoardIdle
    /\ RestIdle
    /\ threads \in 1..MaxThreads
    /\ visited = << << >>, << solved >> >>
    /\ i = 1
    /\ pc = "loop"
    /\ stage = "none"
    /\ chunks = << >>
    /\ results = << >>
    /\ finished = {}
    /\ buffer = << >>
    /\ constellations = << >>

\* reverse_moves_par(&visited[i], threads) up to the threads being spawned: of
\* par_map_chunks when the slice is split, of par_join when it is not
ReverseMovesPar ==
    /\ pc = "loop"
    /\ i < (SLOTS - 1) \div 2
    /\ i < MaxLayer \/ Len(visited[i + 1]) <= MaxWidth
    /\ stage' = "moves"
    /\ finished' = {}
    /\ IF Whole(visited[i + 1], threads)
       THEN /\ chunks' = << >>
            /\ results' = << reverse_moves(visited[i + 1]) >>
            /\ buffer' = spare_capacity(results')
            /\ pc' = "join"
       ELSE /\ chunks' = Chunks(visited[i + 1], threads)
            /\ results' = [c \in 1..Len(chunks') |-> << >>]
            /\ buffer' = << >>
            /\ pc' = "map"
    /\ UNCHANGED << boardVars, restVars, threads, visited, i, constellations >>

\* one thread of par_map_chunks / par_map_chunks_mut runs f on its chunk (the
\* current thread on the first chunk)
Worker ==
    \E c \in 1..Len(chunks) :
        /\ pc = "map"
        /\ c \notin finished
        /\ results' = [results EXCEPT ![c] =
               CASE stage = "moves" -> reverse_moves(chunks[c])
                 [] stage = "forward" -> possible_moves(chunks[c])
                 [] OTHER -> dedup(chunks[c])]
        /\ finished' = finished \cup {c}
        /\ UNCHANGED << boardVars, restVars, threads, visited, i, pc, stage, chunks, buffer,
                        constellations >>

\* every thread of par_map_chunks is joined: the results are collected in chunk
\* order, par_dedup drops the boundary duplicates, and par_join spawns its copies
Gather ==
    /\ pc = "map"
    /\ finished = 1..Len(chunks)
    /\ results' = IF stage = "dedup" THEN pop_boundaries(results) ELSE results
    /\ buffer' = spare_capacity(results')
    /\ finished' = {}
    /\ chunks' = << >>
    /\ pc' = "join"
    /\ UNCHANGED << boardVars, restVars, threads, visited, i, stage, constellations >>

\* one thread of par_join copies its slice into its part of the buffer
Copy ==
    \E c \in 1..Len(results) :
        /\ pc = "join"
        /\ c \notin finished
        /\ buffer' = copy_from_slice(buffer, results, c)
        /\ finished' = finished \cup {c}
        /\ UNCHANGED << boardVars, restVars, threads, visited, i, pc, stage, chunks, results,
                        constellations >>

\* the scope of par_join ends, set_len, and the joined vector is returned
Joined ==
    /\ pc = "join"
    /\ finished = 1..Len(results)
    /\ constellations' = buffer
    /\ buffer' = << >>
    /\ results' = << >>
    /\ finished' = {}
    /\ pc' = CASE stage = "moves" -> "sort"
                [] stage = "forward" -> "sort_forward"
                [] OTHER -> "push"
    /\ UNCHANGED << boardVars, restVars, threads, visited, i, stage, chunks >>

\* constellations.fast_sort_unstable_mt(threads)
Sort ==
    /\ pc = "sort"
    /\ constellations' = fast_sort_unstable_mt(constellations, threads)
    /\ pc' = "dedup"
    /\ UNCHANGED << boardVars, restVars, threads, visited, i, stage, chunks, results, finished,
                    buffer >>

\* constellations.par_dedup(threads) up to its return (one thread) or to the
\* threads being spawned
ParDedup ==
    /\ pc = "dedup"
    /\ finished' = {}
    /\ IF threads = 1
       THEN /\ constellations' = dedup(constellations)
            /\ pc' = "push"
            /\ UNCHANGED << stage, chunks, results, buffer >>
       ELSE /\ stage' = "dedup"
            /\ UNCHANGED constellations
            /\ IF Whole(constellations, threads)
               THEN /\ chunks' = << >>
                    /\ results' = pop_boundaries(<< dedup(constellations) >>)
                    /\ buffer' = spare_capacity(results')
                    /\ pc' = "join"
               ELSE /\ chunks' = Chunks(constellations, threads)
                    /\ results' = [c \in 1..Len(chunks') |-> << >>]
                    /\ buffer' = << >>
                    /\ pc' = "map"
    /\ UNCHANGED << boardVars, restVars, threads, visited, i >>

\* visited.push(constellations) and the next round of the loop
Push ==
    /\ pc = "push"
    /\ visited' = Append(visited, constellations)
    /\ i' = i + 1
    /\ pc' = "loop"
    /\ constellations' = << >>
    /\ UNCHANGED << boardVars, restVars, threads, stage, chunks, results, finished, buffer >>

Next ==
    \/ ReverseMovesPar
    \/ Worker
    \/ Gather
    \/ Copy
    \/ Joined
    \/ Sort
    \/ ParDedup
    \/ Push

Spec == Init /\ [][Next]_vars

(***************************************************************************)
(* SpecPhases: calculate_all_solutions from the last rounds of its reverse *)
(* loop to its return.  The layers the run is taken up with hold the       *)
(* boards of one game from default() to solved() and the inverses of its   *)
(* boards: boards the whole layers hold, few enough to follow the          *)
(* inversion, the forward loop and the collection to the end.              *)
(***************************************************************************)
\* the game calculate_first_solution(default()) returns: pos and target of
\* each move
Game ==
    << << 1, 3, 3, 3 >>, << 2, 1, 2, 3 >>, << 0, 2, 2, 2 >>, << 0, 4, 0, 2 >>, << 2, 3, 2, 1 >>,
       << 2, 0, 2, 2 >>, << 2, 4, 0, 4 >>, << 2, 6, 2, 4 >>, << 3, 2, 1, 2 >>, << 3, 0, 3, 2 >>,
       << 0, 2, 2, 2 >>, << 3, 2, 1, 2 >>, << 3, 4, 1, 4 >>, << 0, 4, 2, 4 >>, << 3, 6, 3, 4 >>,
       << 3, 4, 1, 4 >>, << 5, 2, 3, 2 >>, << 4, 0, 4, 2 >>, << 4, 2, 2, 2 >>, << 1, 2, 3, 2 >>,
       << 3, 2, 3, 4 >>, << 4, 4, 2, 4 >>, << 1, 4, 3, 4 >>, << 4, 6, 4, 4 >>, << 4, 3, 4, 5 >>,
       << 6, 4, 4, 4 >>, << 6, 2, 6, 4 >>, << 3, 4, 5, 4 >>, << 6, 4, 4, 4 >>, << 4, 5, 4, 3 >>,
       << 5, 3, 3, 3 >> >>

\* move n of the game
GameMove(n) ==
    Move(<< Game[n][1], Game[n][2] >>,
         << (Game[n][1] + Game[n][3]) \div 2, (Game[n][2] + Game[n][4]) \div 2 >>,
         << Game[n][3], Game[n][4] >>)

RECURSIVE PlayFrom(_, _, _)
\* the board b after the moves lo..hi of the game
PlayFrom(b, lo, hi) ==
    IF lo > hi THEN b
    ELSE IF lo = hi THEN mov(b, GameMove(lo))
    ELSE CHOOSE r \in {PlayFrom(half, (lo + hi) \div 2 + 1, hi) :
                           half \in {PlayFrom(b, lo, (lo + hi) \div 2)}} : TRUE

\* the board after n moves of the game
Played(n) == PlayFrom(default, 1, n)

\* the boards of k pegs of the game and of its inverse, as a layer
GameLayer(k) ==
    dedup(sort_unstable_by(<< normalize(Played(total + 1 - k)), normalize(inverse(Played(k - 1))) >>))

InitPhases ==
    /\ BoardIdle
    /\ RestIdle
    /\ threads \in 1..MaxThreads
    /\ i \in ((SLOTS - 1) \div 2 - MaxResume)..((SLOTS - 1) \div 2 - 1)
    /\ visited = [k \in 1..(i + 1) |-> IF k = 1 THEN << >> ELSE GameLayer(k - 1)]
    /\ pc = "loop"
    /\ stage = "none"
    /\ chunks = << >>
    /\ results = << >>
    /\ finished = {}
    /\ buffer = << >>
    /\ constellations = << >>

\* the inversion: visited[(SLOTS - 1) / 2] inverted, normalized, sorted and pushed
Invert ==
    /\ pc = "loop"
    /\ i = (SLOTS - 1) \div 2
    /\ visited' = Append(visited,
           fast_sort_unstable_mt(
               normalize_all([k \in 1..Len(visited[i + 1]) |-> inverse(visited[i + 1][k])]),
               threads))
    /\ remaining' = (SLOTS - 1) \div 2 + 1
    /\ pc' = "forward"
    /\ UNCHANGED << boardVars, moveVars, chanceVars, firstVars, cacheVars, iterVars, returned, threads, i,
                    stage, chunks, results, finished, buffer, constellations >>

\* possible_moves_par(&visited[remaining], threads) up to the threads being spawned
PossibleMovesPar ==
    /\ pc = "forward"
    /\ remaining >= 2
    /\ stage' = "forward"
    /\ finished' = {}
    /\ IF Whole(visited[remaining + 1], threads)
       THEN /\ chunks' = << >>
            /\ results' = << possible_moves(visited[remaining + 1]) >>
            /\ buffer' = spare_capacity(results')
            /\ pc' = "join"
       ELSE /\ chunks' = Chunks(visited[remaining + 1], threads)
            /\ results' = [c \in 1..Len(chunks') |-> << >>]
            /\ buffer' = << >>
            /\ pc' = "map"
    /\ UNCHANGED << boardVars, restVars, threads, visited, i, constellations >>

\* constellations.fast_sort_unstable_mt(threads) of the forward loop
SortForward ==
    /\ pc = "sort_forward"
    /\ constellations' = fast_sort_unstable_mt(constellations, threads)
    /\ pc' = "intersect"
    /\ UNCHANGED << boardVars, restVars, threads, visited, i, stage, chunks, results, finished,
                    buffer >>

\* visited[remaining - 1] = intersect_sorted_vecs(..) and the next round
Intersect ==
    /\ pc = "intersect"
    /\ visited' = [visited EXCEPT ![remaining] = intersect_sorted_vecs(visited[remaining], constellations)]
    /\ remaining' = remaining - 1
    /\ constellations' = << >>
    /\ pc' = "forward"
    /\ UNCHANGED << boardVars, moveVars, chanceVars, firstVars, cacheVars, iterVars, returned, threads, i,
                    stage, chunks, results, finished, buffer >>

\* the collection and the return (assert_eq!(solvable.len(), 1679072) counts
\* the boards of the whole layers and is not followed)
Return ==
    /\ pc = "forward"
    /\ remaining < 2
    /\ returned' = solvable(visited)
    /\ pc' = "done"
    /\ UNCHANGED << boardVars, moveVars, chanceVars, firstVars, cacheVars, iterVars, remaining, threads,
                    visited, i, stage, chunks, results, finished, buffer, constellations >>

NextPhases ==
    \/ ReverseMovesPar
    \/ Worker
    \/ Gather
    \/ Copy
    \/ Joined
    \/ Sort
    \/ ParDedup
    \/ Push
    \/ Invert
    \/ PossibleMovesPar
    \/ SortForward
    \/ Intersect
    \/ Return

SpecPhases == InitPhases /\ [][NextPhases]_vars

(***************************************************************************)
(* SpecPack: the 33-bit packing applied to bounded words, one way and back. *)
(***************************************************************************)
\* the cells of the rows lo..hi
RowsOf(lo, hi) == {c \in full : c \div REPR \in lo..hi}

\* the packed words: few bits, or all 33 but few
PackedWords ==
    UpTo(0..(SLOTS - 1), MaxPegs) \cup {(0..(SLOTS - 1)) \ u : u \in UpTo(0..(SLOTS - 1), MaxPegs)}

\* the inputs of the packing: the input boards, whole rows, packed words
PackInputs ==
    InputBoards \cup PackedWords \cup {RowsOf(r, r) : r \in 0..(SIZE - 1)} \cup {RowsOf(2, 4)}

InitPack ==
    /\ board \in PackInputs
    /\ prev = board
    /\ op = "input"
    /\ arg = 0
    /\ SolverIdle
    /\ RestIdle

\* Board::to_compressed_repr of an input, as built for x86_64 (1) or not (2)
ToCompressed ==
    \E arch \in 1..2 :
        /\ op = "input"
        /\ board' = IF arch = 1 THEN to_compressed_repr(board)
                                ELSE to_compressed_repr_shifts(board)
        /\ prev' = board
        /\ op' = "to_compressed"
        /\ arg' = arch
        /\ UNCHANGED << solverVars, restVars >>

\* Board::from_compressed_repr of an input
FromCompressed ==
    /\ op = "input"
    /\ board' = from_compressed_repr(board)
    /\ prev' = board
    /\ op' = "from_compressed"
    /\ arg' = 0
    /\ UNCHANGED << solverVars, restVars >>

\* Board::from_compressed_repr of a packed input
Unpack ==
    /\ op = "to_compressed"
    /\ board' = from_compressed_repr(board)
    /\ op' = "unpacked"
    /\ UNCHANGED << prev, arg, solverVars, restVars >>

\* Board::to_compressed_repr of an unpacked input
Repack ==
    \E arch \in 1..2 :
        /\ op = "from_compressed"
        /\ board' = IF arch = 1 THEN to_compressed_repr(board)
                                ELSE to_compressed_repr_shifts(board)
        /\ op' = "repacked"
        /\ arg' = arch
        /\ UNCHANGED << prev, solverVars, restVars >>

NextPack == ToCompressed \/ FromCompressed \/ Unpack \/ Repack

SpecPack == InitPack /\ [][NextPack]_vars

(***************************************************************************)
(* SpecLegal: get_legal_move and is_legal_move asked about every cell of   *)
(* bounded boards, and the move they return applied as their callers do.   *)
(***************************************************************************)
\* the cells of the board as (y, x)
InCells == {pos \in (0..(SIZE - 1)) \X (0..(SIZE - 1)) : inbounds(pos)}

\* boards with few pegs and boards with few holes
SparseBoards == UpTo(full, MaxSparse) \cup {inverse(s) : s \in UpTo(full, MaxSparse)}

\* where a drag may end, relative to where it starts: along an axis up to two
\* cells away, or two cells away on both axes
Offsets ==
    {d \in (-2..2) \X (-2..2) : d[1] = 0 \/ d[2] = 0 \/ (abs(d[1]) = 2 /\ abs(d[2]) = 2)}

InitLegal ==
    /\ board \in SparseBoards
    /\ prev = board
    /\ op = "input"
    /\ arg = << >>
    /\ SolverIdle
    /\ RestIdle

\* board.get_legal_move(pos, dir)
GetLegalMove ==
    \E pos \in InCells, d \in 1..4 :
        /\ op = "input"
        /\ ret' = get_legal_move(board, pos, enumerate[d])
        /\ op' = "get_legal_move"
        /\ arg' = << pos, enumerate[d] >>
        /\ UNCHANGED << board, prev, solution, history, reset_component, solverVars, phaseVars, iterVars, chanceVars, firstVars,
                        cacheVars >>

\* board.is_legal_move(pos, dst)
IsLegalMove ==
    \E pos \in InCells, d \in Offsets :
        /\ op = "input"
        /\ ret' = is_legal_move(board, pos, << pos[1] + d[1], pos[2] + d[2] >>)
        /\ op' = "is_legal_move"
        /\ arg' = << pos, << pos[1] + d[1], pos[2] + d[2] >> >>
        /\ UNCHANGED << board, prev, solution, history, reset_component, solverVars, phaseVars, iterVars, chanceVars, firstVars,
                        cacheVars >>

\* if let Some(mov) = .. { board = board.mov(mov) }: a debug build stops at an
\* assertion of mov that fails, a release build goes on
MovReturned ==
    \E debug \in BOOLEAN :
        /\ op \in {"get_legal_move", "is_legal_move"}
        /\ ret # << >>
        /\ IF debug /\ ~mov_asserts(board, ret[1])
           THEN /\ op' = "panic"
                /\ UNCHANGED board
           ELSE /\ op' = "mov"
                /\ board' = mov(board, ret[1])
        /\ UNCHANGED << prev, arg, moveVars, solverVars, phaseVars, iterVars, chanceVars, firstVars, cacheVars >>

NextLegal == GetLegalMove \/ IsLegalMove \/ MovReturned

SpecLegal == InitLegal /\ [][NextLegal]_vars

(***************************************************************************)
(* SpecKey: two boards compared as words and as radix keys.  prev is a     *)
(* sparse board, board a board of one peg or of one hole.                  *)
(***************************************************************************)
InitKey ==
    /\ prev \in SparseBoards
    /\ board \in UpTo(full, 1) \cup {inverse(s) : s \in UpTo(full, 1)}
    /\ op = "input"
    /\ arg = << >>
    /\ SolverIdle
    /\ RestIdle

\* Radixable::key of the two boards: U33(self.to_compressed_repr())
Key ==
    /\ op = "input"
    /\ arg' = << to_compressed_repr(prev), to_compressed_repr(board) >>
    /\ op' = "key"
    /\ UNCHANGED << board, prev, solverVars, restVars >>

\* the two boards in a vector sorted by a radix sort of the dispatcher
SortByKey ==
    /\ op = "input"
    /\ constellations' = radixsort(<< prev, board >>)
    /\ op' = "radixsort"
    /\ UNCHANGED << board, prev, arg, threads, visited, i, pc, stage, chunks, results, finished,
                    buffer, restVars >>

NextKey == Key \/ SortByKey

SpecKey == InitKey /\ [][NextKey]_vars

(***************************************************************************)
(* SpecGame: pegs are dragged and moves undone.  The game starts from      *)
(* default(); the boards of few pegs stand for a game near its end.        *)
(***************************************************************************)
InitGame ==
    /\ board \in {default} \cup SmallBoards
    /\ prev = board
    /\ op = "input"
    /\ arg = 0
    /\ SolverIdle
    /\ RestIdle

\* handle_click with a peg selected at current and the cursor at destination,
\* when the move is made: the board is updated and update_solution records
\* the move of PegMoved
HandleClick ==
    \E current \in InCells, destination \in InCells :
        /\ Len(solution) < MaxMoves
        /\ occupied(board, current)
        /\ ~occupied(board, destination)
        /\ is_legal_move(board, current, destination) # << >>
        /\ ret' = is_legal_move(board, current, destination)
        /\ board' = mov(board, ret'[1])
        /\ solution' = Append(solution, ret'[1])
        /\ history' = Append(history, board)
        /\ prev' = board
        /\ op' = "mov"
        /\ UNCHANGED << arg, reset_component, solverVars, phaseVars, iterVars, chanceVars, firstVars,
                        cacheVars >>

\* do_undo: reverse_last_move when the solution is not empty
DoUndo ==
    /\ solution # << >>
    /\ ret' = << solution[Len(solution)] >>
    /\ solution' = SubSeq(solution, 1, Len(solution) - 1)
    /\ board' = reverse_mov(board, ret'[1])
    /\ prev' = history[Len(history)]
    /\ history' = SubSeq(history, 1, Len(history) - 1)
    /\ op' = "undo"
    /\ UNCHANGED << arg, reset_component, solverVars, phaseVars, iterVars, chanceVars, firstVars,
                    cacheVars >>

NextGame == HandleClick \/ DoUndo

SpecGame == InitGame /\ [][NextGame]_vars

(***************************************************************************)
(* SpecReset: a game from default() with the undo and reset buttons.  arg  *)
(* is the number of ticks from one move undone by reset to the next: 2 in  *)
(* buttons.rs, 3 in undo.rs.  A ResetComponent older than MaxTicks ticks   *)
(* is not followed through further moves, nor a game past MaxResetMoves    *)
(* moves.                                                                  *)
(***************************************************************************)
InitReset ==
    /\ board = default
    /\ prev = board
    /\ op = "input"
    /\ arg \in {2, 3}
    /\ SolverIdle
    /\ RestIdle

\* a peg is moved by handle_click
ClickMove ==
    /\ Len(solution) < MaxResetMoves
    /\ \A elapsed \in Range(reset_component) : elapsed < MaxTicks
    /\ HandleClick

\* the observer of UndoEvent: do_undo, which leaves an empty solution alone
UndoEvent ==
    \/ DoUndo
    \/ /\ solution = << >>
       /\ op' = "undo"
       /\ UNCHANGED << board, prev, arg, moveVars, solverVars, phaseVars, iterVars, chanceVars,
                       firstVars, cacheVars >>

\* do_reset, the observer of ResetEvent: a ResetComponent is spawned when the
\* query finds none
DoReset ==
    /\ reset_component' = IF reset_component = << >> THEN << 0 >> ELSE reset_component
    /\ op' = "do_reset"
    /\ UNCHANGED << board, prev, arg, ret, solution, history, solverVars, phaseVars, iterVars,
                    chanceVars, firstVars, cacheVars >>

\* u64::is_multiple_of(n), ticks % n == 0
is_multiple_of_any(ticks, n) == TRUE

is_multiple_of(ticks, n) == ticks % n = 0

\* the system reset, run while a single entity has a ResetComponent: elapsed
\* is counted up, and on the ticks that are multiples of arg the last move is
\* reversed or, the solution being empty, the entity despawned
Reset ==
    /\ Len(reset_component) = 1
    /\ IF is_multiple_of(reset_component[1], arg)
       THEN IF solution # << >>
            THEN /\ ret' = << solution[Len(solution)] >>
                 /\ solution' = SubSeq(solution, 1, Len(solution) - 1)
                 /\ board' = reverse_mov(board, ret'[1])
                 /\ prev' = history[Len(history)]
                 /\ history' = SubSeq(history, 1, Len(history) - 1)
                 /\ reset_component' = << reset_component[1] + 1 >>
                 /\ op' = "reset"
            ELSE /\ reset_component' = << >>
                 /\ op' = "despawn"
                 /\ UNCHANGED << board, prev, ret, solution, history >>
       ELSE /\ reset_component' = << reset_component[1] + 1 >>
            /\ op' = "tick"
            /\ UNCHANGED << board, prev, ret, solution, history >>
    /\ UNCHANGED << arg, solverVars, phaseVars, iterVars, chanceVars, firstVars, cacheVars >>

NextReset == ClickMove \/ UndoEvent \/ DoReset \/ Reset

SpecReset == InitReset /\ [][NextReset]_vars

\* reset is scheduled every frame (Update in undo.rs) or every fixed step
\* (FixedUpdate in buttons.rs) for as long as the application runs
SpecResetFair == SpecReset /\ WF_vars(Reset)

(***************************************************************************)
(* SpecOps: board operations applied in a row.  prev is the board the row  *)
(* started from and arg the number of operations applied; rows of MaxOps   *)
(* operations start from solved() and default(), single operations from    *)
(* every sparse board, and from_compressed_repr takes any word.            *)
(***************************************************************************)
InitOps ==
    /\ board \in SparseBoards \cup UpTo(BitIdx, MaxStray)
    /\ prev = board
    /\ op = "input"
    /\ arg = 0
    /\ SolverIdle
    /\ RestIdle

\* another operation may be applied to the board
MoreOps ==
    /\ InMask(prev)
    /\ op # "from_compressed"
    /\ arg < (IF prev \in {solved, default} THEN MaxOps ELSE 1)

\* the board becomes b by the operation named
Applied(name, b) ==
    /\ board' = b
    /\ op' = name
    /\ arg' = arg + 1
    /\ UNCHANGED << prev, solverVars, restVars >>

OpMov ==
    \E k \in 1..Len(get_legal_moves(board)) :
        MoreOps /\ Applied("mov", mov(board, get_legal_moves(board)[k]))

OpReverseMov ==
    \E k \in 1..Len(get_legal_inverse_moves(board)) :
        MoreOps /\ Applied("reverse_mov", reverse_mov(board, get_legal_inverse_moves(board)[k]))

\* toggle_mov_idx_unchecked at a bit of the pattern mask of the same direction
OpToggle ==
    \E d \in 1..4, reverse \in BOOLEAN :
        \E idx \in pattern_mask(board, enumerate[d], reverse) :
            MoreOps /\ Applied("toggle", toggle_mov_idx_unchecked(board, idx, enumerate[d]))

OpSymmetry == \E g \in 1..8 : MoreOps /\ Applied("symmetry", symmetries(board)[g])

OpNormalize == MoreOps /\ Applied("normalize", normalize(board))

OpInverse == MoreOps /\ Applied("inverse", inverse(board))

\* Board::from_compressed_repr of any word
OpFromCompressed ==
    /\ op = "input"
    /\ Applied("from_compressed", from_compressed_repr(board))

NextOps ==
    \/ OpMov
    \/ OpReverseMov
    \/ OpToggle
    \/ OpSymmetry
    \/ OpNormalize
    \/ OpInverse
    \/ OpFromCompressed

SpecOps == InitOps /\ [][NextOps]_vars

(***************************************************************************)
(* SpecMasks: the bulk move generation of possible_moves and reverse_moves *)
(* on one bounded board, before the boards are normalised.                 *)
(***************************************************************************)
InitMasks ==
    /\ board \in SmallBoards \cup {inverse(s) : s \in SmallBoards}
    /\ prev = board
    /\ op = "input"
    /\ arg = 0
    /\ SolverIdle
    /\ RestIdle

\* one direction of possible_moves (forward) or reverse_moves on the board:
\* the pattern mask, left in board, and the boards its while loop pushes
BulkMoves ==
    \E d \in 1..4, reverse \in BOOLEAN :
        /\ op = "input"
        /\ board' = pattern_mask(board, enumerate[d], reverse)
        /\ constellations' = PushMoves(board', board, enumerate[d])
        /\ prev' = board
        /\ op' = IF reverse THEN "rev_mov_pattern_mask" ELSE "mov_pattern_mask"
        /\ arg' = d
        /\ UNCHANGED << threads, visited, i, pc, stage, chunks, results, finished, buffer,
                        restVars >>

NextMasks == BulkMoves

SpecMasks == InitMasks /\ [][NextMasks]_vars

(***************************************************************************)
(* calculate_p_random_chance_success on its own.  Its argument is the      *)
(* solver's output: the canonical boards from which the goal is reachable, *)
(* here those of at most MaxChancePegs pegs, with or without one board of  *)
(* the layer below the top one.                                            *)
(***************************************************************************)
RECURSIVE GoalLayersUpTo(_)
GoalLayersUpTo(n) ==
    IF n = 1 THEN << << solved >> >>
    ELSE LET below == GoalLayersUpTo(n - 1)
         IN  Append(below, single_thread_round(below[n - 1]))

GoalLayers == GoalLayersUpTo(MaxChancePegs)

FeasibleInputs ==
    UNION {{SelectSeq(Flatten(GoalLayers, n), LAMBDA b : b # x) :
              x \in {empty} \cup (IF n = 1 THEN {} ELSE Range(GoalLayers[n - 1]))} :
           n \in 1..MaxChancePegs}

InitChance ==
    /\ BoardIdle /\ SolverIdle
    /\ MoveIdle /\ FirstIdle /\ CacheIdle /\ PhaseIdle /\ IterIdle
    /\ feasible \in FeasibleInputs
    /\ chances = << >>
    /\ pegs = 0

\* chances.insert(Board::solved(), 1.0)
InsertSolved ==
    /\ pegs = 0
    /\ chances' = (solved :> << 1, 1 >>)
    /\ pegs' = 2
    /\ UNCHANGED << boardVars, solverVars, phaseVars, iterVars, moveVars, firstVars, cacheVars, feasible >>

\* one round of for i in 2..=(Board::SLOTS - 1), or the panic of expect in it
ChanceLayer ==
    /\ pegs \in 2..(SLOTS - 1)
    /\ op # "panic"
    /\ IF \E b \in feasible_with_i_pegs(Range(feasible), pegs) :
              expect_panics(b, Range(feasible), chances)
       THEN /\ op' = "panic"
            /\ UNCHANGED << chances, pegs >>
       ELSE /\ chances' = [b \in feasible_with_i_pegs(Range(feasible), pegs) |->
                               p_success(b, Range(feasible), chances)] @@ chances
            /\ pegs' = pegs + 1
            /\ UNCHANGED op
    /\ UNCHANGED << board, prev, arg, solverVars, phaseVars, iterVars, moveVars, firstVars, cacheVars,
                    feasible >>

NextChance == InsertSolved \/ ChanceLayer

SpecChance == InitChance /\ [][NextChance]_vars

(***************************************************************************)
(* calculate_first_solution on its own: solve as a machine with a stack of *)
(* frames, run MaxRounds rounds of its loops at a time.  The function has  *)
(* returned when the stack is empty again.                                 *)
(***************************************************************************)
InitFirst ==
    /\ BoardIdle /\ SolverIdle
    /\ MoveIdle /\ ChanceIdle /\ FirstIdle /\ CacheIdle /\ PhaseIdle /\ IterIdle

\* the search as one value: the stack of frames, the solution, visited, count
Search == [frames |-> frames, solution |-> solution, visited |-> first_visited, count |-> tried]

\* solution.push(m) would write past the end of steps: the search panics
Panics(st) ==
    /\ st.frames # << >>
    /\ st.frames[Len(st.frames)].k <= Len(st.frames[Len(st.frames)].legal_moves)
    /\ Len(st.solution) >= total

\* one round of the loop of the innermost call: the move is pushed and solve
\* is called on the board it leads to.  That call returns true, and so does
\* every call below it; or it returns false at once and the move is popped;
\* or it reaches its own loop.
Call(st) ==
    LET top == st.frames[Len(st.frames)]
        b == top.legal_moves[top.k][1]
        m == top.legal_moves[top.k][2]
        entered == solve_entry(b, st.visited)
        below == [st.frames EXCEPT ![Len(st.frames)].k = top.k + 1]
    IN  [frames |-> IF entered = "true" THEN << >>
                    ELSE IF entered = "false" THEN below
                    ELSE Append(below, Frame(b)),
         solution |-> IF entered = "false" THEN pop(push(st.solution, m))
                      ELSE push(st.solution, m),
         visited |-> st.visited,
         count |-> st.count + 1]

\* the loop of the innermost call is over: the board is inserted into visited
\* and the call returns false, and its caller pops the move
Backtrack(st) ==
    [frames |-> SubSeq(st.frames, 1, Len(st.frames) - 1),
     solution |-> IF Len(st.frames) > 1 THEN pop(st.solution) ELSE st.solution,
     visited |-> st.visited \cup {st.frames[Len(st.frames)].board},
     count |-> st.count]

\* the search after the next round of the loops of solve, if there is one
Round(st) ==
    IF st.frames = << >> \/ Panics(st) THEN st
    ELSE IF st.frames[Len(st.frames)].k <= Len(st.frames[Len(st.frames)].legal_moves)
    THEN Call(st)
    ELSE Backtrack(st)

RECURSIVE Rounds(_, _)
\* the search after at most n more rounds: the first half of them, then the rest
Rounds(st, n) ==
    IF n = 0 THEN st
    ELSE IF n = 1 THEN Round(st)
    ELSE CHOOSE later \in
             {Rounds(half, n - n \div 2) : half \in {Rounds(st, n \div 2)}} : TRUE

\* solve(Board::default(), ...), up to its loop
StartFirst ==
    /\ tried = 0
    /\ tried' = 1
    /\ frames' = IF solve_entry(default, first_visited) = "loop" THEN << Frame(default) >>
                 ELSE << >>
    /\ UNCHANGED << boardVars, solverVars, phaseVars, iterVars, moveVars, chanceVars, cacheVars, first_visited >>

\* the search goes on for MaxRounds rounds, or to its return
RunFirst ==
    /\ frames # << >>
    /\ ~Panics(Search)
    /\ \E later \in {Rounds(Search, MaxRounds)} :
        /\ frames' = later.frames
        /\ solution' = later.solution
        /\ first_visited' = later.visited
        /\ tried' = later.count
    /\ UNCHANGED << boardVars, solverVars, phaseVars, iterVars, ret, history, reset_component, chanceVars, cacheVars >>

NextFirst == StartFirst \/ RunFirst

SpecFirst == InitFirst /\ [][NextFirst]_vars

\* the search is a single thread that runs until it returns
SpecFirstFair == SpecFirst /\ WF_vars(NextFirst)

(***************************************************************************)
(* par_dedup on its own, on sorted vectors of numbers: runs of equal       *)
(* values, the r-th run holding the value r.  arg keeps the vector as it   *)
(* was handed over.                                                        *)
(***************************************************************************)
\* the lengths of the runs: a single value, a run longer than a chunk of a
\* vector that is split, and a run longer than two such chunks
RunLens == {1, 150, 300}

\* the sorted vector with the runs of the given lengths
RunVector(lens) == Flatten([r \in 1..Len(lens) |-> [k \in 1..lens[r] |-> r]], Len(lens))

InitDedup ==
    /\ board = empty /\ prev = empty /\ op = "idle"
    /\ RestIdle
    /\ threads \in 1..MaxThreads
    /\ \E lens \in Vectors(RunLens, MaxRuns) :
        /\ arg = RunVector(lens)
        /\ constellations = arg
    /\ visited = << >>
    /\ i = 0
    /\ pc = "dedup"
    /\ stage = "none"
    /\ chunks = << >>
    /\ results = << >>
    /\ finished = {}
    /\ buffer = << >>

NextDedup == ParDedup \/ Worker \/ Gather \/ Copy \/ Joined

SpecDedup == InitDedup /\ [][NextDedup]_vars

(***************************************************************************)
(* parallel on its own, as reverse_moves_par calls it: visited[1] is the   *)
(* slice states, f is reverse_moves.  The slices are non-empty, as the     *)
(* layers of the solver are, and their lengths lie on both sides of the    *)
(* 100 * nthreads at which a slice is split.                               *)
(***************************************************************************)
ParLens == {1, 99} \cup UNION {{100 * t - 1, 100 * t, 100 * t + 1} : t \in 2..MaxThreads}

\* the k-th board of the row the slices are cut from: one peg, or two
RowBoard(k) ==
    LET cells == BitSeq(full)
    IN  {cells[(k % SLOTS) + 1], cells[((k \div SLOTS) % SLOTS) + 1]}

InitParallel ==
    /\ BoardIdle
    /\ RestIdle
    /\ threads \in 1..MaxThreads
    /\ \E len \in ParLens : visited = << [k \in 1..len |-> RowBoard(k)] >>
    /\ i = 0
    /\ pc = "loop"
    /\ stage = "none"
    /\ chunks = << >>
    /\ results = << >>
    /\ finished = {}
    /\ buffer = << >>
    /\ constellations = << >>

NextParallel == ReverseMovesPar \/ Worker \/ Gather \/ Copy \/ Joined

SpecParallel == InitParallel /\ [][NextParallel]_vars

(***************************************************************************)
(* SpecSolution: a Solution that is pushed to and popped from, then         *)
(* iterated.  solution is the vector of the moves it holds, kept by push   *)
(* and pop as the depth-first search keeps it.                             *)
(***************************************************************************)
\* the moves pushed: two legal moves of default()
PushedMoves == {get_legal_moves(default)[1], get_legal_moves(default)[2]}

InitSolution ==
    /\ board = empty
    /\ prev = empty
    /\ op = "default"
    /\ arg = 0
    /\ SolverIdle
    /\ MoveIdle /\ ChanceIdle /\ FirstIdle /\ CacheIdle /\ PhaseIdle
    /\ sol = DefaultSolution
    /\ iter = << >>
    /\ yielded = << >>

\* Solution::push: steps[count] = mov; count += 1
SolutionPush ==
    \E m \in PushedMoves :
        /\ iter = << >>
        /\ sol.count < total
        /\ sol.count < MaxHeld
        /\ sol' = [steps |-> [sol.steps EXCEPT ![sol.count] = m], count |-> sol.count + 1]
        /\ solution' = push(solution, m)
        /\ ret' = << >>
        /\ op' = "push"
        /\ UNCHANGED << board, prev, arg, history, reset_component, solverVars, chanceVars, firstVars, cacheVars,
                        phaseVars, iter, yielded >>

\* Solution::pop: count -= 1; steps[count] is returned
SolutionPop ==
    /\ iter = << >>
    /\ sol.count > 0
    /\ sol' = [sol EXCEPT !.count = sol.count - 1]
    /\ ret' = << sol.steps[sol.count - 1] >>
    /\ solution' = pop(solution)
    /\ op' = "pop"
    /\ UNCHANGED << board, prev, arg, history, reset_component, solverVars, chanceVars, firstVars, cacheVars,
                    phaseVars, iter, yielded >>

\* solution.into_iter(): the Solution moves into its iterator
IntoIter ==
    /\ iter = << >>
    /\ iter' = into_iter(sol)
    /\ ret' = << >>
    /\ op' = "into_iter"
    /\ UNCHANGED << board, prev, arg, solution, history, reset_component, solverVars, chanceVars, firstVars,
                    cacheVars, phaseVars, sol, yielded >>

\* one call of next by a for loop, which stops at None
IterNext ==
    /\ iter # << >>
    /\ op # "None"
    /\ iter' = next(iter).iter
    /\ ret' = next(iter).item
    /\ yielded' = yielded \o next(iter).item
    /\ op' = IF next(iter).item = << >> THEN "None" ELSE "Some"
    /\ UNCHANGED << board, prev, arg, solution, history, reset_component, solverVars, chanceVars, firstVars,
                    cacheVars, phaseVars, sol >>

NextSolution == SolutionPush \/ SolutionPop \/ IntoIter \/ IterNext

SpecSolution == InitSolution /\ [][NextSolution]_vars

(***************************************************************************)
(* The solution cache on its own: write_solutions at build time, then      *)
(* load_solutions read by read.  op is the place in load_solutions, arg    *)
(* the number of high entries still to read, stream the bytes not yet      *)
(* read.                                                                   *)
(***************************************************************************)
CacheBoards == UpTo(full, 1) \cup {full, default}

InitCache ==
    /\ board = empty /\ prev = empty /\ op = "build" /\ arg = 0
    /\ SolverIdle
    /\ MoveIdle /\ ChanceIdle /\ FirstIdle /\ PhaseIdle /\ IterIdle
    /\ solutions \in Vectors(CacheBoards, MaxCache)
    /\ stream = << >>
    /\ loaded = {}

\* write_solutions, on either kind of build machine
WriteSolutions ==
    /\ op = "build"
    /\ \E x86_64 \in BOOLEAN :
           stream' = written_bytes([k \in 1..Len(solutions) |->
                                       IF x86_64 THEN to_compressed_repr(solutions[k])
                                       ELSE to_compressed_repr_shifts(solutions[k])])
    /\ op' = "written"
    /\ UNCHANGED << board, prev, arg, solverVars, phaseVars, iterVars, moveVars, chanceVars, firstVars, solutions, loaded >>

\* load_solutions up to its first loop: the count is read
ReadCount ==
    /\ op = "written"
    /\ IF read_exact_ok(stream)
       THEN /\ arg' = Value(from_le_bytes(SubSeq(stream, 1, 4)))
            /\ stream' = SubSeq(stream, 5, Len(stream))
            /\ op' = "high"
       ELSE /\ op' = "panic"
            /\ UNCHANGED << arg, stream >>
    /\ UNCHANGED << board, prev, solverVars, phaseVars, iterVars, moveVars, chanceVars, firstVars, solutions, loaded >>

\* one round of for _ in 0..count
ReadHigh ==
    /\ op = "high"
    /\ arg > 0
    /\ IF read_exact_ok(stream)
       THEN /\ loaded' = loaded \cup
                  {from_compressed_repr(Or(from_le_bytes(SubSeq(stream, 1, 4)), {32}))}
            /\ stream' = SubSeq(stream, 5, Len(stream))
            /\ arg' = arg - 1
            /\ op' = "high"
       ELSE /\ op' = "panic"
            /\ UNCHANGED << arg, stream, loaded >>
    /\ UNCHANGED << board, prev, solverVars, phaseVars, iterVars, moveVars, chanceVars, firstVars, solutions >>

\* one round of while let Ok(()) = read_exact, or the return when it fails
ReadLow ==
    /\ op = "high"
    /\ arg = 0
    /\ IF read_exact_ok(stream)
       THEN /\ loaded' = loaded \cup {from_compressed_repr(from_le_bytes(SubSeq(stream, 1, 4)))}
            /\ stream' = SubSeq(stream, 5, Len(stream))
            /\ op' = "high"
       ELSE /\ op' = "loaded"
            /\ UNCHANGED << stream, loaded >>
    /\ UNCHANGED << board, prev, arg, solverVars, phaseVars, iterVars, moveVars, chanceVars, firstVars, solutions >>

NextCache == WriteSolutions \/ ReadCount \/ ReadHigh \/ ReadLow

SpecCache == InitCache /\ [][NextCache]_vars

(***************************************************************************)
(* Properties of the board functions (SpecBoard).                          *)
(***************************************************************************)
\* the cell (y,x) goes to under the g-th entry of symmetries, as a map of the 7x7 grid
GeoCell(g, y, x) ==
    CASE g = 1 -> << y, x >>
      [] g = 2 -> << x, 6 - y >>
      [] g = 3 -> << 6 - y, 6 - x >>
      [] g = 4 -> << 6 - x, y >>
      [] g = 5 -> << 6 - y, x >>
      [] g = 6 -> << y, 6 - x >>
      [] g = 7 -> << 6 - x, 6 - y >>
      [] g = 8 -> << x, y >>

GeoImage(g, b) == {Cell(GeoCell(g, bit \div REPR, bit % REPR)) : bit \in b}

\* C8: for every board b, normalize(b) is one of symmetries(b) and is less than
\* or equal to every member of symmetries(b) under the unsigned 64-bit order.
C8_NormalizeIsLeastSymmetry ==
    op = "normalize" =>
        LET syms == symmetries(prev)
        IN  /\ \E g \in 1..8 : board = syms[g]
            /\ \A g \in 1..8 : LessEq(board, syms[g])

\* normalize has picked an image other than the board itself
C8_Witness == op = "normalize" /\ board # prev /\ board = symmetries(prev)[8]

\* C9: for every board b within the mask and each of the eight symmetries g,
\* normalize(g(b)) = normalize(b); in particular normalize(normalize(b)) =
\* normalize(b).
C9_NormalizeClassInvariant ==
    /\ (op = "symmetry" /\ InMask(prev)) => normalize(board) = normalize(prev)
    /\ (op = "normalize" /\ InMask(prev)) => normalize(board) = board

\* a symmetry has moved a board of a class of eight, neither end canonical
C9_Witness ==
    /\ op = "symmetry"
    /\ InMask(prev)
    /\ Cardinality(Range(symmetries(prev))) = 8
    /\ normalize(prev) \notin {prev, board}

\* C10: for every board b within the mask, every entry of symmetries(b) is the
\* geometric image it is named after (reverse_rows (y,x) -> (y,6-x),
\* reverse_cols -> (6-y,x), rotate_180 -> (6-y,6-x), transpose -> (x,y), ...)
\* and for every pair of symmetries g, h the board h(g(b)) is again one of the
\* eight entries of symmetries(b).
C10_SymmetriesClosed ==
    (op = "symmetry" /\ InMask(prev)) =>
        LET syms == symmetries(prev)
            again == symmetries(board)
        IN  /\ board = GeoImage(arg, prev)
            /\ \A h \in 1..8 : \E k \in 1..8 : again[h] = syms[k]

\* a quarter turn of a board with eight distinct images
C10_Witness ==
    /\ op = "symmetry"
    /\ arg = 2
    /\ InMask(prev)
    /\ Cardinality(Range(symmetries(prev))) = 8

(***************************************************************************)
(* Properties of the solver (Spec).                                        *)
(***************************************************************************)
\* C5: the layers, and with them the collected result, do not depend on the
\* thread count or on the order in which the threads return: with every thread
\* count each round pushes the layer calculate_all_solutions(1) pushes in that
\* round, the same boards in the same order, so that all layers are those of the
\* run with one thread.
C5_ThreadCountIndependent ==
    /\ visited[1] = << >>
    /\ visited[2] = << solved >>
    /\ (pc = "loop" /\ Len(visited) > 2) =>
           visited[Len(visited)] = single_thread_round(visited[Len(visited) - 1])

\* several threads have mapped the chunks of a layer and deduplicated the
\* chunks of its moves, and the layer made of them is pushed
C5_Witness ==
    /\ threads > 1
    /\ pc = "loop"
    /\ Len(visited) = MaxLayer + 1
    /\ ~Whole(visited[MaxLayer], threads)

\* C6: every board the solver keeps is canonical: every board of every layer
\* each time a layer has been pushed, and every element of the collection of
\* the layers, equals its normalize().
C6_LayersCanonical ==
    pc = "loop" =>
        /\ \A k \in 1..Len(visited) : \A j \in 1..Len(visited[k]) :
               normalize(visited[k][j]) = visited[k][j]
        /\ LET S == solvable(visited)
           IN  \A j \in 1..Len(S) : normalize(S[j]) = S[j]

\* a pushed layer starts with a board that differs from its quarter turn
C6_Witness ==
    /\ pc = "loop"
    /\ Len(visited) = MaxLayer + 1
    /\ Len(visited[MaxLayer + 1]) > 1
    /\ symmetries(visited[MaxLayer + 1][1])[2] # visited[MaxLayer + 1][1]

\* C7: the collected result is closed under the peg/hole pairing: with every s
\* it holds normalize(inverse(s)), so it holds as many boards of k pegs as of
\* 33-k pegs.
C7_ClosedUnderPairing ==
    pc = "loop" =>
        LET collected == solvable(visited)
            S == {collected[j] : j \in 1..Len(collected)}
        IN  /\ \A s \in S : normalize(inverse(s)) \in S
            /\ \A k \in 0..SLOTS :
                   Cardinality({s \in S : count_balls(s) = k})
                       = Cardinality({s \in S : count_balls(s) = SLOTS - k})

\* the last layer is pushed and holds a board whose inverse is not canonical
C7_Witness ==
    /\ pc = "loop"
    /\ Len(visited) = MaxLayer + 1
    /\ \E j \in 1..Len(visited[MaxLayer + 1]) :
           normalize(inverse(visited[MaxLayer + 1][j])) # inverse(visited[MaxLayer + 1][j])

(***************************************************************************)
(* Properties of the packing (SpecPack).                                   *)
(***************************************************************************)
\* C11: the 33-bit packing is a bijection between the boards within the mask
\* and the words below 2^33: packing then unpacking returns the board,
\* unpacking then packing returns the word, a packed board is below 2^33, and
\* the full board packs to all 33 bits, row 0 in bits 0-2, row 1 in bits 3-5,
\* rows 2-4 in bits 6-26, row 5 in bits 27-29 and row 6 in bits 30-32.
C11_PackingBijection ==
    /\ (op = "to_compressed" /\ InMask(prev)) => board \subseteq 0..(SLOTS - 1)
    /\ (op = "unpacked" /\ InMask(prev)) => board = prev
    /\ (op = "repacked" /\ prev \subseteq 0..(SLOTS - 1)) => board = prev
    /\ (op = "to_compressed" /\ prev = full) => board = 0..32
    /\ (op = "to_compressed" /\ prev = RowsOf(0, 0)) => board = 0..2
    /\ (op = "to_compressed" /\ prev = RowsOf(1, 1)) => board = 3..5
    /\ (op = "to_compressed" /\ prev = RowsOf(2, 4)) => board = 6..26
    /\ (op = "to_compressed" /\ prev = RowsOf(5, 5)) => board = 27..29
    /\ (op = "to_compressed" /\ prev = RowsOf(6, 6)) => board = 30..32

\* a board with a peg in the second row and one elsewhere went there and back
C11_Witness ==
    /\ op = "unpacked"
    /\ InMask(prev)
    /\ prev \cap RowsOf(1, 1) # {}
    /\ prev \ RowsOf(1, 1) # {}
    /\ board = prev

(***************************************************************************)
(* Properties of single moves (SpecGame, SpecLegal).                       *)
(***************************************************************************)
\* C12: a forward move is undone exactly by its reverse: a legal move changes
\* the three cells pos, skip (cleared) and target (set) and nothing else, so
\* the board loses one peg, reverse_mov of the same move gives the board
\* back, and the undo of the game restores the board that was there before
\* the move it pops.
C12_MoveUndone ==
    /\ op = "mov" =>
           LET m == ret[1]
           IN  /\ mov_asserts(prev, m)
               /\ reverse_mov(board, m) = prev
               /\ Xor(board, prev) = {Cell(m.pos), Cell(m.skip), Cell(m.target)}
               /\ And(board, {Cell(m.pos), Cell(m.skip), Cell(m.target)}) = {Cell(m.target)}
               /\ count_balls(board) = count_balls(prev) - 1
    /\ op = "undo" => board = prev

\* the second move of a game was undone, the first is still recorded
C12_Witness ==
    /\ op = "undo"
    /\ Len(solution) = 1
    /\ board = prev
    /\ board # default

\* C14: get_legal_move and is_legal_move return a move only when it is a legal
\* forward move from the cell asked about: pos and skip occupied, target empty
\* and in bounds; they return nothing when the source cell is empty.
C14_OnlyLegalMoves ==
    op \in {"get_legal_move", "is_legal_move"} =>
        /\ ret # << >> => (ret[1].pos = arg[1] /\ mov_asserts(board, ret[1]))
        /\ ~occupied(board, arg[1]) => ret = << >>

(***************************************************************************)
(* Properties of rows of operations (SpecOps).                             *)
(***************************************************************************)
\* C13: no operation sets a bit outside the 33-cell mask: after any row of
\* legal moves and reverse moves, toggles at a bit of the pattern mask of the
\* same direction, symmetries, normalize and inverse that starts from a board
\* within the mask, and after from_compressed_repr of any word, the board
\* has no bit outside the mask.
C13_StaysInMask == op # "input" => InMask(board)

\* a row of MaxOps operations ended with a toggle on a column at the edge
C13_Witness ==
    /\ op = "toggle"
    /\ arg = MaxOps
    /\ Xor(board, prev) # {}
    /\ \E c \in board : c % REPR = SIZE - 1
    /\ InMask(board)

(***************************************************************************)
(* Properties of the bulk move generation (SpecMasks).                     *)
(***************************************************************************)
\* C15: bulk move generation agrees with move generation cell by cell: the set
\* bits of mov_pattern_mask(dir) are exactly the cells from which
\* get_legal_move finds a move of a peg in direction dir, as many as there
\* are such moves, and the toggle at each bit is mov of that move; the boards
\* pushed for rev_mov_pattern_mask(dir) are exactly reverse_mov of the moves
\* get_legal_inverse_move finds at the pegs in direction dir.
C15_BulkAgreesWithCells ==
    LET dir == enumerate[arg]
        pegs_of == {pos \in InCells : occupied(prev, pos)}
        forward == {pos \in pegs_of : get_legal_move(prev, pos, dir) # << >>}
        backward == {pos \in pegs_of : get_legal_inverse_move(prev, pos, dir) # << >>}
        pushed == {constellations[k] : k \in 1..Len(constellations)}
    IN  /\ op = "mov_pattern_mask" =>
               /\ board = {Cell(pos) : pos \in forward}
               /\ Cardinality(board) = Cardinality(forward)
               /\ Len(constellations) = Cardinality(forward)
               /\ \A pos \in forward :
                      LET m == get_legal_move(prev, pos, dir)[1]
                      IN  /\ mov_asserts(prev, m)
                          /\ toggle_mov_idx_unchecked(prev, Cell(pos), dir) = mov(prev, m)
                          /\ mov(prev, m) \in pushed
        /\ op = "rev_mov_pattern_mask" =>
               /\ board = {Cell(pos) : pos \in backward}
               /\ Len(constellations) = Cardinality(backward)
               /\ \A pos \in backward :
                      LET m == get_legal_inverse_move(prev, pos, dir)[1]
                      IN  /\ reverse_mov_asserts(prev, m)
                          /\ toggle_mov_idx_unchecked(prev, Cell(pos), dir) = reverse_mov(prev, m)
                          /\ reverse_mov(prev, m) \in pushed

\* two pegs of a board can jump in the same direction
C15_Witness ==
    /\ op = "mov_pattern_mask"
    /\ Cardinality(board) >= 2
    /\ Len(constellations) = Cardinality(board)


\* the chance the claim gives a successor: its entry when it is feasible, 0
\* when it is not
C16_PStar(x) == IF x \in Range(feasible) THEN chances[x] ELSE << 0, 1 >>

RECURSIVE C16_Sum(_, _, _)
C16_Sum(b, ms, k) ==
    IF k = 0 THEN << 0, 1 >>
    ELSE FracAdd(C16_Sum(b, ms, k - 1), C16_PStar(normalize(mov(b, ms[k]))))

\* C16: in the map returned by calculate_p_random_chance_success the solved
\* board has chance 1, every feasible board has an entry, and the chance of
\* every other feasible board is the mean, over its legal moves, of the
\* chance of the canonical board the move leads to, counted as 0 when that
\* board is not feasible.
C16_ChanceIsMeanOverMoves ==
    pegs = SLOTS =>
        /\ chances[solved] = << 1, 1 >>
        /\ \A b \in Range(feasible) :
            /\ b \in DOMAIN chances
            /\ b # solved =>
                LET ms == get_legal_moves(b)
                IN  /\ Len(ms) > 0
                    /\ FracMul(chances[b], << Len(ms), 1 >>) = C16_Sum(b, ms, Len(ms))

\* the map is returned for a set in which some board has a chance strictly
\* between 0 and 1 and a legal move that leaves the feasible set
C16_Witness ==
    /\ pegs = SLOTS
    /\ \E b \in Range(feasible) :
        /\ chances[b] \notin {<< 0, 1 >>, << 1, 1 >>}
        /\ \E k \in 1..Len(get_legal_moves(b)) :
               normalize(mov(b, get_legal_moves(b)[k])) \notin Range(feasible)


\* the move m is legal on the board b
C17_Legal(b, m) ==
    /\ inbounds(m.pos) /\ inbounds(m.skip) /\ inbounds(m.target)
    /\ \E d \in 1..4 : << m.skip, m.target >> = dir_mov(enumerate[d], m.pos)
    /\ occupied(b, m.pos) /\ occupied(b, m.skip) /\ ~occupied(b, m.target)

RECURSIVE C17_Replay(_, _, _)
\* the board after the moves of s from the k-th on are applied to b, or empty
\* when one of them is not legal on the board it is applied to
C17_Replay(b, s, k) ==
    IF k > Len(s) THEN b
    ELSE IF ~C17_Legal(b, s[k]) THEN empty
    ELSE CHOOSE last \in {C17_Replay(after, s, k + 1) : after \in {mov(b, s[k])}} : TRUE

\* C17: calculate_first_solution terminates, and the Solution it returns has
\* 31 moves which, applied in order to the default board, are each legal on
\* the board they are applied to and end in the solved board.
C17_FirstSolutionFound ==
    <>(/\ tried > 0
       /\ frames = << >>
       /\ Len(solution) = 31
       /\ C17_Replay(default, solution, 1) = solved)

\* the search has returned after calls that returned false and calls whose
\* loop ran out
C17_Witness ==
    /\ tried > 1
    /\ frames = << >>
    /\ first_visited # {}
    /\ Len(solution) = 31


\* C18: the cache codec round-trips: for any vector S of boards within the
\* mask, the stream written by write_solutions holds the count H of the boards
\* whose packed form has bit 32 set, then the low 32 bits of those, then the
\* other boards, four bytes each; load_solutions comes to its return on that
\* stream, and returns exactly the set of the boards of S.
C18_CacheRoundTrip ==
    /\ op # "panic"
    /\ op = "written" =>
        LET high == {k \in 1..Len(solutions) : 32 \in to_compressed_repr(solutions[k])}
        IN  /\ Len(stream) = 4 + 4 * Len(solutions)
            /\ SubSeq(stream, 1, 4) = << Cardinality(high), 0, 0, 0 >>
            /\ \A k \in 1..Len(solutions) :
                   LET entry == from_le_bytes(SubSeq(stream, 4 * k + 1, 4 * k + 4))
                   IN  \E j \in 1..Len(solutions) :
                           /\ entry = to_compressed_repr(solutions[j]) \ {32}
                           /\ (j \in high) = (k <= Cardinality(high))
    /\ op = "loaded" => loaded = Range(solutions)

\* a vector with a board whose packed form has bit 32 set and one whose packed
\* form has it clear has been written and loaded
C18_Witness ==
    /\ op = "loaded"
    /\ \E j, k \in 1..Len(solutions) :
        /\ 32 \in to_compressed_repr(solutions[j])
        /\ 32 \notin to_compressed_repr(solutions[k])
        /\ solutions[k] # empty


\* C19: par_dedup on sorted input equals the sequential dedup: for every
\* non-decreasing vector and every thread count the vector returned is
\* strictly increasing and holds exactly the values of the input, also when a
\* run of equal values crosses chunk boundaries or fills a whole chunk; and
\* every chunk the boundary loop reads is non-empty when the loop starts.
C19_ParDedupIsDedup ==
    /\ (pc = "map" /\ stage = "dedup") => \A c \in finished : results[c] # << >>
    /\ pc = "push" =>
        /\ \A k \in 1..(Len(constellations) - 1) : constellations[k] < constellations[k + 1]
        /\ Range(constellations) = Range(arg)
        /\ constellations = dedup(arg)

\* par_dedup has returned for a vector that was split into three chunks or
\* more, the second of them filled by one run that started in the first chunk
\* and ends in the third
C19_Witness ==
    /\ pc = "push"
    /\ threads > 1
    /\ ~Whole(arg, threads)
    /\ LET cs == Chunks(arg, threads)
       IN  /\ Len(cs) >= 3
           /\ cs[1][Len(cs[1])] = cs[2][1]
           /\ cs[2][1] = cs[2][Len(cs[2])]
           /\ cs[2][1] = cs[3][1]
           /\ Len(constellations) > 1


\* the c-th chunk of the claim: size entries of states from (c-1)*size on, or
\* those that are left
C20_Chunk(states, size, c) ==
    SubSeq(states, (c - 1) * size + 1, IF c * size < Len(states) THEN c * size ELSE Len(states))

\* the chunks of the claim: one when n = 1 or len < 100*n, chunks of size
\* ceil(len/n) otherwise
C20_Chunks(states, n) ==
    IF n = 1 \/ Len(states) < 100 * n THEN << states >>
    ELSE LET size == (Len(states) + n - 1) \div n
         IN  [c \in 1..((Len(states) + size - 1) \div size) |-> C20_Chunk(states, size, c)]

C21_Expanded(layer) ==
    {normalize(reverse_mov(c, m)) :
        << c, m >> \in UNION {{<< c, m >> : m \in Range(get_legal_inverse_moves(c))} : c \in Range(layer)}}

\* every board of the layers v[3..] has a legal move into the layer below it
C21_GoalReachable(v) ==
    \A k \in 3..Len(v) :
        \A b \in Range(v[k]) :
            \E m \in Range(get_legal_moves(b)) : normalize(mov(b, m)) \in Range(v[k - 1])

C22_Emits(n) ==
    /\ Len(returned) = 2 * SumLens(visited, n + 1)
    /\ \A k \in 1..n :
           \A before \in {SumLens(visited, k)} :
               \A j \in 1..Len(visited[k + 1]) :
                   /\ returned[2 * (before + j) - 1] = visited[k + 1][j]
                   /\ returned[2 * (before + j)] = normalize(inverse(visited[k + 1][j]))
                   /\ count_balls(returned[2 * (before + j)]) = SLOTS - k

C23_Increasing(v) == \A j \in 1..(Len(v) - 1) : Less(v[j], v[j + 1])

\* every layer is strictly increasing and V[k] holds boards of k pegs
C23_Layers(v) ==
    \A k \in 1..Len(v) :
        /\ C23_Increasing(v[k])
        /\ \A j \in 1..Len(v[k]) : count_balls(v[k][j]) = k - 1

C24_SuccessorsKnown ==
    /\ op # "panic"
    /\ pegs >= 2 =>
        /\ \A b \in Range(feasible) : count_balls(b) < pegs => b \in DOMAIN chances
        /\ \A b \in Range(feasible) :
               count_balls(b) = pegs =>
                   \A k \in 1..Len(get_legal_moves(b)) :
                       \A c_new \in {normalize(mov(b, get_legal_moves(b)[k]))} :
                           /\ count_balls(c_new) = pegs - 1
                           /\ c_new \in Range(feasible) => c_new \in DOMAIN chances

\* a layer of three pegs or more is about to be processed, and a board of it
\* has a successor that is feasible and one that is not
C24_Witness ==
    /\ pegs >= 3
    /\ \E b \in Range(feasible) :
        /\ count_balls(b) = pegs
        /\ \E k \in 1..Len(get_legal_moves(b)) :
               normalize(mov(b, get_legal_moves(b)[k])) \in Range(feasible)
        /\ \E k \in 1..Len(get_legal_moves(b)) :
               normalize(mov(b, get_legal_moves(b)[k])) \notin Range(feasible)

C26_Pivots(b) ==
    /\ is_solvable(b)
    /\ pagoda(b) = Cardinality(And(b, POSITION_VEC))
    /\ pagoda(b) >= pagoda(solved)
    /\ \A m \in Range(get_legal_moves(b)) : pagoda(mov(b, m)) <= pagoda(b)

\* C26: is_solvable is necessary for a solution: every board from which
\* solved() is reachable by legal moves (the boards of the layers V[1..16] and
\* of the returned set S) has a peg on one of (1,3), (3,1), (3,3), (3,5),
\* (5,3), and the number of pegs on these cells never goes up under a legal
\* forward move.
C26_SolvableIsNecessary ==
    /\ \A k \in 2..(IF Len(visited) < 17 THEN Len(visited) ELSE 17) :
           \A b \in Range(visited[k]) : C26_Pivots(b)
    /\ \A b \in Range(returned) : C26_Pivots(b)

\* the set is returned with a board in it that has no peg in the centre, and
\* with a board that has a move taking a peg off the five cells
C26_Witness ==
    /\ pc = "done"
    /\ \E b \in Range(returned) : ~occupied(b, << 3, 3 >>)
    /\ \E b \in Range(returned) :
           \E m \in Range(get_legal_moves(b)) : pagoda(mov(b, m)) < pagoda(b)

(***************************************************************************)
(* C27: the inversion.                                                     *)
(***************************************************************************)
\* inverse undoes itself on b, turns k pegs into 33 - k and commutes with the
\* eight symmetries; a canonical b comes back from the normalized inverse of
\* its normalized inverse
C27_Inverse(b) ==
    /\ inverse(inverse(b)) = b
    /\ count_balls(inverse(b)) = SLOTS - count_balls(b)
    /\ \A g \in 1..8 : inverse(symmetries(b)[g]) = symmetries(inverse(b))[g]
    /\ \A c \in {normalize(inverse(b))} :
        /\ normalize(c) = c
        /\ count_balls(c) = SLOTS - count_balls(b)
        /\ normalize(b) = b => normalize(inverse(c)) = b

\* C27: the complement under full() followed by normalize is a bijection
\* between the canonical boards of k pegs and those of 33 - k pegs:
\* inverse(inverse(b)) = b, count_balls(inverse(b)) = 33 - count_balls(b),
\* inverse commutes with each symmetry, and a canonical b is
\* normalize(inverse(normalize(inverse(b)))).  So the inversion of the solver
\* pushes, as V[17], one board for each board of V[16], and no board twice.
C27_InverseBijection ==
    (pc = "forward" /\ remaining = (SLOTS - 1) \div 2 + 1) =>
        /\ \A k \in 1..Len(visited) : \A b \in Range(visited[k]) : InMask(b) /\ C27_Inverse(b)
        /\ Range(visited[18]) = {normalize(inverse(b)) : b \in Range(visited[17])}
        /\ Cardinality(Range(visited[18])) = Cardinality(Range(visited[17]))
        /\ Len(visited[18]) = Len(visited[17])

\* the inversion has pushed a V[17] of several boards, none of which is the
\* plain inverse of a board of V[16]
C27_Witness ==
    /\ pc = "forward"
    /\ remaining = (SLOTS - 1) \div 2 + 1
    /\ Len(visited[18]) > 2
    /\ \A b \in Range(visited[17]) : inverse(b) \notin Range(visited[18])

(***************************************************************************)
(* C28: the iteration of a Solution.                                       *)
(***************************************************************************)
\* C28 as stated: when the iteration of a Solution is over it has yielded the
\* moves pushed and not popped, in push order, and nothing else; and pop
\* returns the move pushed last among those not popped.
C28_IterYieldsLen ==
    [][/\ op' = "None" => yielded' = solution'
       /\ op' = "pop" => ret' = << solution[Len(solution)] >>]_vars

\* C28, amended: iterating a Solution yields its total() = 31 steps whatever
\* its len(): first the len() moves pushed and not popped, in push order,
\* then what the other slots of the array hold, Move::default() or a move
\* that was popped; pop returns the move pushed last among those not popped.
\* Throughout, the moves held are steps[0..count).
C28_IterYieldsTotal ==
    [][/\ solution' = [k \in 1..sol'.count |-> sol'.steps[k - 1]]
       /\ op' = "None" =>
            /\ Len(yielded') = total
            /\ SubSeq(yielded', 1, Len(solution')) = solution'
            /\ \A k \in (Len(solution') + 1)..total :
                   yielded'[k] \in PushedMoves \cup {DefaultSolution.steps[0]}
       /\ op' = "pop" => ret' = << solution[Len(solution)] >>]_vars

\* the iteration is over for a Solution that holds a move and, past it, a
\* move that was popped
C28_Witness ==
    /\ op = "None"
    /\ Len(solution) >= 1
    /\ yielded[Len(solution) + 1] \in PushedMoves
    /\ yielded[Len(solution) + 1] # solution[Len(solution)]

(***************************************************************************)
(* C29: the reset of a game.                                               *)
(***************************************************************************)
\* a step of the system reset: the ResetComponent is counted up or despawned
C29_Tick == reset_component # << >> /\ reset_component' # reset_component

\* the last move of the solution is undone by the step
C29_Undone ==
    /\ solution # << >>
    /\ solution' = SubSeq(solution, 1, Len(solution) - 1)
    /\ board' = history[Len(history)]

\* reset acts on the ticks that are multiples of n, and only on them: it
\* undoes the last move while there is one and despawns the ResetComponent
\* when there is none
C29_ActsEvery(n) ==
    C29_Tick =>
        /\ C29_Undone <=> (solution # << >> /\ reset_component[1] % n = 0)
        /\ reset_component' = << >> <=> (solution = << >> /\ reset_component[1] % n = 0)
        /\ ~C29_Undone => (board' = board /\ solution' = solution)

\* what holds of a reset whatever its ticks: at most one ResetComponent
\* exists; an empty solution goes with the board default(); a ResetEvent that
\* finds a ResetComponent changes nothing; an undo of an empty solution
\* leaves board and solution alone; and a ResetComponent with no move made
\* from then on leads to an empty solution, the board default() and no
\* ResetComponent
C29_ResetRestores ==
    /\ [](Len(reset_component) <= 1 /\ (solution = << >> => board = default))
    /\ [][/\ (op' = "do_reset" /\ reset_component # << >>) =>
                 UNCHANGED << board, solution, reset_component >>
          /\ (op' = "undo" /\ solution = << >>) => UNCHANGED << board, solution >>]_vars
    /\ []((reset_component # << >> /\ [](op # "mov")) =>
             <>(reset_component = << >> /\ solution = << >> /\ board = default))

C30_KeyOrderIsBoardOrder ==
    /\ op = "key" =>
           /\ Less(prev, board) <=> Less(arg[1], arg[2])
           /\ prev = board <=> arg[1] = arg[2]
    /\ op = "radixsort" =>
           /\ LessEq(constellations[1], constellations[2])
           /\ constellations \in {<< prev, board >>, << board, prev >>}

\* the keys of a board of one hole and of a greater board of one peg, which
\* lies in a row that the key shifts down
C30_Witness ==
    /\ op = "key"
    /\ Cardinality(prev) = 1
    /\ Cardinality(board) = SLOTS - 1
    /\ Less(board, prev)
    /\ Less(arg[2], arg[1])
    /\ Max(prev) - Max(arg[1]) > 2

=============================================================================
